---- MODULE Spec2Model ----
(***************************************************************************)
(* Verification model of the Cudy router integration (ha-cudy-router).    *)
(*                                                                         *)
(* Part 1: the router client of custom_components/cudy_router/router.py:  *)
(* the session cookie, authenticate() with its modern and legacy login    *)
(* attempts, get() with its retry loop, and validate_input() of           *)
(* config_flow.py, which drives get_model() and authenticate().            *)
(* Every HTTP request is one step; the router's answer (an exception or a *)
(* response with a status, a Set-Cookie header and a body) is chosen by    *)
(* the environment.                                                        *)
(***************************************************************************)
EXTENDS Integers, Sequences, FiniteSets, TLC

(***************************************************************************)
(* Bounds of the model.                                                    *)
(***************************************************************************)
\* number of distinct sysauth session ids the router hands out
MaxCookie == 2

(***************************************************************************)
(* Values.                                                                 *)
(***************************************************************************)
\* Python's None for the cookie slots; session ids are 1..MaxCookie
None == 0
CookieValues == 1..MaxCookie
\* response bodies; a response can have an empty body
Bodies == {"", "page1", "page2"}
Statuses == {200, 302, 403, 404, 408, 429, 500, 503}
\* the executor threads that can run a call on the one router client
Threads == {"poll", "action"}

VARIABLES
    auth_cookie,   \* CudyRouter.auth_cookie: the remembered session cookie
    jar,           \* the sysauth cookie held by the requests session's cookie jar
    th,            \* per thread: the call in progress and its local variables
    poll           \* the data collection in progress or done, with its result

vars == <<auth_cookie, jar, th, poll>>

(***************************************************************************)
(* The answers of the router.                                              *)
(***************************************************************************)
\* a request either raises (ConnectionError, Timeout, ...) or is answered
Exceptions ==
    {[kind |-> "exception", status |-> 0, setcookie |-> None, form |-> FALSE,
      body |-> "", banner |-> ""]}

\* the answer to a GET of the login page: form says whether the hidden salt
\* and token inputs are both present and non-empty
LoginPageResponses ==
    [kind : {"response"}, status : {200, 403}, setcookie : {None} \cup CookieValues,
     form : BOOLEAN, body : {""}, banner : {""}]

\* the same page as get_model() reads it: banner is the text of the
\* <span>HW: ...</span> element, "" when the page has none
Banners == {"", "WR3000S V1.0", "P5"}
ModelPageResponses ==
    [kind : {"response"}, status : {200, 403}, setcookie : {None} \cup CookieValues,
     form : {FALSE}, body : {""}, banner : Banners]

\* the answer to a login POST
LoginPostResponses ==
    [kind : {"response"}, status : Statuses, setcookie : {None} \cup CookieValues,
     form : {FALSE}, body : {""}, banner : {""}]

\* the answer to a page GET
PageResponses ==
    [kind : {"response"}, status : Statuses, setcookie : {None} \cup CookieValues,
     form : {FALSE}, body : Bodies, banner : {""}]

\* requests.Response.ok: raise_for_status() raises for 400 <= status < 600
ResponseOk(status) == ~(400 <= status /\ status < 600)

\* the session stores the cookie of a Set-Cookie header in its jar
JarAfter(j, r) == IF r.setcookie # None THEN r.setcookie ELSE j

(***************************************************************************)
(* authenticate()                                                          *)
(***************************************************************************)
BoolStr(b) == IF b THEN "True" ELSE "False"

\* authenticate() line 270: the remembered cookie is dropped before the attempts
CookieAfterReset_keep(c) == c
CookieAfterReset(c) == None

\* _authenticate_new lines 209-216: success iff the jar holds a sysauth cookie
NewSucceeds_status(j, status) == j # None /\ ResponseOk(status)
NewSucceeds(j, status) == j # None

\* _authenticate_legacy lines 136-143
LegacySucceeds_anystatus(status, cookie) == cookie # None
LegacySucceeds(status, cookie) ==
    (ResponseOk(status) \/ status = 302) /\ cookie # None

\* authenticate() lines 273-283: what follows a failed modern attempt
AfterNewFailure_noretry(attempt) == "legacy_post"
AfterNewFailure(attempt) == IF attempt = 1 THEN "new_get" ELSE "legacy_post"

\* the frame of a thread that runs no call
IdleFrame ==
    [pc |-> "idle", op |-> "none", retries |-> 0, attempt |-> 0,
     authlog |-> <<>>, authret |-> "none", authcalls |-> 0,
     getlog |-> <<>>, ret |-> "none", answered |-> FALSE, model |-> "",
     got |-> "", before |-> None,
     sent |-> [remembered |-> None, cookie |-> None],
     last |-> [scheme |-> "none", posted |-> FALSE, status |-> 0,
               cookie |-> None, ok |-> FALSE, stored |-> None]]

\* the prologue of authenticate() (lines 267-273) in frame l
AuthPrologue(l) ==
    [l EXCEPT !.pc = "new_get", !.attempt = 1, !.authlog = <<>>,
              !.authret = "none", !.authcalls = l.authcalls + 1]

\* get() line 293: the retry budget of one call
GetRetries == 2

\* get() lines 312-317: after authenticate() returned b inside get()
GetAfterAuth(l, b) ==
    IF b /\ l.retries > 0
    THEN [l EXCEPT !.pc = "get_send"]
    ELSE [l EXCEPT !.pc = "idle", !.ret = ""]

\* authenticate() returns b to the call that runs in frame l
AuthDone(l, b) ==
    LET l1 == [l EXCEPT !.authret = BoolStr(b)] IN
    CASE l.op = "authenticate" -> [l1 EXCEPT !.pc = "idle", !.ret = BoolStr(b)]
      [] l.op = "get" -> GetAfterAuth(l1, b)
      [] OTHER -> [l1 EXCEPT !.pc = "idle",
                             !.ret = IF b THEN "ok" ELSE "InvalidAuth"]

\* a modern attempt failed: retry it once, then fall back to legacy
NewFailed(l, rec) ==
    [l EXCEPT !.authlog = Append(l.authlog, [scheme |-> "new", ok |-> FALSE]),
              !.last = rec,
              !.pc = AfterNewFailure(l.attempt),
              !.attempt = l.attempt + 1]

\* a thread calls authenticate() directly
StartAuthenticate(t) ==
    /\ th[t].pc = "idle"
    /\ UNCHANGED poll
    /\ th' = [th EXCEPT ![t] = AuthPrologue([IdleFrame EXCEPT !.op = "authenticate",
                                                             !.before = auth_cookie])]
    /\ auth_cookie' = CookieAfterReset(auth_cookie)
    /\ jar' = None

\* _authenticate_new lines 160-179: GET the login page, look for salt and token
NewGet(t) ==
    /\ th[t].pc = "new_get"
    /\ UNCHANGED poll
    /\ \E r \in Exceptions \cup LoginPageResponses :
         LET j == JarAfter(jar, r)
             l == [th[t] EXCEPT !.answered = @ \/ r.kind = "response"]
             rec == [scheme |-> "new", posted |-> FALSE, status |-> r.status,
                     cookie |-> j, ok |-> FALSE, stored |-> auth_cookie]
         IN /\ jar' = j
            /\ auth_cookie' = auth_cookie
            /\ th' = [th EXCEPT ![t] =
                        IF r.kind = "response" /\ r.form
                        THEN [l EXCEPT !.pc = "new_post"]
                        ELSE NewFailed(l, rec)]

\* _authenticate_new lines 181-224: POST the credentials, look for the cookie
NewPost(t) ==
    /\ th[t].pc = "new_post"
    /\ UNCHANGED poll
    /\ \E r \in Exceptions \cup LoginPostResponses :
         LET j == JarAfter(jar, r)
             l == [th[t] EXCEPT !.answered = @ \/ r.kind = "response"]
             good == r.kind = "response" /\ NewSucceeds(j, r.status)
             ac == IF good THEN j ELSE auth_cookie
             rec == [scheme |-> "new", posted |-> r.kind = "response",
                     status |-> r.status, cookie |-> j, ok |-> good, stored |-> ac]
         IN /\ jar' = j
            /\ auth_cookie' = ac
            /\ th' = [th EXCEPT ![t] =
                        IF good
                        THEN AuthDone([l EXCEPT
                                 !.authlog = Append(l.authlog, [scheme |-> "new", ok |-> TRUE]),
                                 !.last = rec], TRUE)
                        ELSE NewFailed(l, rec)]

\* _authenticate_legacy lines 127-148: POST the plain credentials
LegacyPost(t) ==
    /\ th[t].pc = "legacy_post"
    /\ UNCHANGED poll
    /\ \E r \in Exceptions \cup LoginPostResponses :
         LET j == JarAfter(jar, r)
             l == [th[t] EXCEPT !.answered = @ \/ r.kind = "response"]
             good == r.kind = "response" /\ LegacySucceeds(r.status, r.setcookie)
             ac == IF good THEN r.setcookie ELSE auth_cookie
             rec == [scheme |-> "legacy", posted |-> r.kind = "response",
                     status |-> r.status, cookie |-> r.setcookie, ok |-> good,
                     stored |-> ac]
         IN /\ jar' = j
            /\ auth_cookie' = ac
            /\ th' = [th EXCEPT ![t] =
                        AuthDone([l EXCEPT
                            !.authlog = Append(l.authlog, [scheme |-> "legacy", ok |-> good]),
                            !.last = rec], good)]

(***************************************************************************)
(* get()                                                                   *)
(***************************************************************************)
\* get() lines 301-302: the cookie the request carries
SentCookie_stale(ac, j) == j
SentCookie(ac, j) == IF ac # None THEN ac ELSE j

\* get() lines 322-324 and 294: an exception is swallowed and the loop goes on
AfterException_break(retries) == "idle"
AfterException(retries) == IF retries > 0 THEN "get_send" ELSE "idle"

\* get() lines 311-321: what a status leads to
GetDisposition(status) ==
    IF status = 403 THEN "authenticate"
    ELSE IF ResponseOk(status) THEN "return" ELSE "break"

\* a thread calls get(url)
StartGet(t) ==
    /\ th[t].pc = "idle"
    /\ UNCHANGED poll
    /\ th' = [th EXCEPT ![t] = [IdleFrame EXCEPT !.op = "get", !.pc = "get_send",
                                                   !.retries = GetRetries]]
    /\ UNCHANGED <<auth_cookie, jar>>

\* get() lines 294-324: one pass of the loop, with the request it sends
GetSend(t) ==
    /\ th[t].pc = "get_send"
    /\ UNCHANGED poll
    /\ \E r \in Exceptions \cup PageResponses :
         LET j0 == SentCookie(auth_cookie, jar)
             j1 == JarAfter(j0, r)
             d == IF r.kind = "exception" THEN "exception" ELSE GetDisposition(r.status)
             l == [th[t] EXCEPT !.retries = @ - 1,
                                !.answered = @ \/ r.kind = "response",
                                !.sent = [remembered |-> auth_cookie, cookie |-> j0],
                                !.getlog = Append(@, [out |-> d, status |-> r.status,
                                                      body |-> r.body])]
         IN CASE d = "exception" ->
                   /\ th' = [th EXCEPT ![t] =
                               IF AfterException(l.retries) = "get_send"
                               THEN l ELSE [l EXCEPT !.pc = "idle", !.ret = ""]]
                   /\ jar' = j1
                   /\ auth_cookie' = auth_cookie
              [] d = "authenticate" ->
                   /\ th' = [th EXCEPT ![t] = AuthPrologue([l EXCEPT !.before = auth_cookie])]
                   /\ jar' = None
                   /\ auth_cookie' = CookieAfterReset(auth_cookie)
              [] d = "return" ->
                   /\ th' = [th EXCEPT ![t] = [l EXCEPT !.pc = "idle", !.ret = r.body]]
                   /\ jar' = j1
                   /\ auth_cookie' = auth_cookie
              [] OTHER ->
                   /\ th' = [th EXCEPT ![t] = [l EXCEPT !.pc = "idle", !.ret = ""]]
                   /\ jar' = j1
                   /\ auth_cookie' = auth_cookie

(***************************************************************************)
(* validate_input() of config_flow.py                                      *)
(***************************************************************************)
\* validate_input lines 60-61: the client is constructed outside every try
\* block; the config flow test patches the constructor to raise
StartValidate(t) ==
    /\ th[t].pc = "idle"
    /\ UNCHANGED poll
    /\ \E ctor_raises \in BOOLEAN :
         th' = [th EXCEPT ![t] =
                  IF ctor_raises
                  THEN [IdleFrame EXCEPT !.op = "validate_input", !.ret = "Exception"]
                  ELSE [IdleFrame EXCEPT !.op = "validate_input", !.pc = "model_get"]]
    /\ UNCHANGED <<auth_cookie, jar>>

\* get_model() lines 226-263: the banner, or False when there is none or the
\* request raised
get_model(r) == IF r.kind = "response" /\ r.banner # "" THEN r.banner ELSE "False"

\* validate_input lines 63-76: get_model(), then authenticate()
ModelGet(t) ==
    /\ th[t].pc = "model_get"
    /\ UNCHANGED poll
    /\ \E r \in Exceptions \cup ModelPageResponses :
         LET m == get_model(r)
             l == [th[t] EXCEPT !.answered = @ \/ r.kind = "response",
                                !.got = m,
                                !.model = IF m = "False" THEN "default" ELSE m]
         IN /\ th' = [th EXCEPT ![t] = AuthPrologue([l EXCEPT !.before = auth_cookie])]
            /\ jar' = None
            /\ auth_cookie' = CookieAfterReset(auth_cookie)

(***************************************************************************)
(* The router client used by one thread at a time.                         *)
(***************************************************************************)
\* no collection has run yet
IdlePoll ==
    [pc |-> "idle", fn |-> "none", model |-> "", gate |-> [fn |-> "none", enabled |-> {}],
     inp |-> <<>>, exc |-> "", data |-> <<>>, requests |-> <<>>, args |-> <<>>,
     result |-> "none", timed_out |-> FALSE, inner |-> [exc |-> "", data |-> <<>>],
     status |-> 0, posts |-> <<>>, hass |-> <<>>]

Init ==
    /\ auth_cookie = None
    /\ jar = None
    /\ th = [t \in Threads |-> IdleFrame]
    /\ poll = IdlePoll

Next ==
    \E t \in {"poll"} :
        \/ StartAuthenticate(t)
        \/ NewGet(t)
        \/ NewPost(t)
        \/ LegacyPost(t)
        \/ StartGet(t)
        \/ GetSend(t)
        \/ StartValidate(t)
        \/ ModelGet(t)

Spec == Init /\ [][Next]_vars

(***************************************************************************)
(* Properties of the router client.                                        *)
(***************************************************************************)
\* the order in which authenticate() tries the login schemes
Schemes == <<"new", "new", "legacy">>
Returned(t, op) == th[t].op = op /\ th[t].pc = "idle"

\* C1: authenticate() tries modern, modern, legacy in this order; legacy only
\* after two failed modern attempts; no attempt follows a successful one; it
\* returns true exactly when one of the at most three attempts succeeded.
C1_AttemptOrder ==
    \A t \in Threads :
        LET log == th[t].authlog
            won == \E i \in 1..Len(log) : log[i].ok
        IN /\ Len(log) <= 3
           /\ \A i \in 1..Len(log) :
                 /\ log[i].scheme = Schemes[i]
                 /\ (i < Len(log) => ~log[i].ok)
           /\ (won => th[t].authret = "True")
           /\ (th[t].authret = "True" => won)
           /\ (th[t].authret = "False" => Len(log) = 3 /\ ~won)

\* authenticate() succeeded through the legacy flow after two failed modern attempts
C1_Witness ==
    \E t \in Threads :
        /\ th[t].authret = "True"
        /\ Len(th[t].authlog) = 3
        /\ th[t].authlog[3] = [scheme |-> "legacy", ok |-> TRUE]

\* C2: one get() call re-authenticates at most once and sends at most one
\* request after the re-authentication.
C2_OneReauthentication ==
    \A t \in Threads :
        th[t].op = "get" => th[t].authcalls <= 1 /\ Len(th[t].getlog) <= 2

\* the claim's statuses
OkOrRedirect(status) == 200 <= status /\ status < 400

\* C3: a login attempt reports success only when a sysauth cookie was
\* received and stores its value; the modern attempt succeeds exactly when the
\* cookie is present after the credentials POST, whatever the status; the
\* legacy attempt exactly when the response is OK or a redirect with the cookie.
C3_SuccessIsCookie ==
    \A t \in Threads :
        LET a == th[t].last IN
        /\ (a.ok => a.cookie # None /\ a.stored = a.cookie)
        /\ (a.scheme = "new" => (a.ok <=> a.posted /\ a.cookie # None))
        /\ (a.scheme = "legacy" =>
              (a.ok <=> a.posted /\ OkOrRedirect(a.status) /\ a.cookie # None))

\* a modern attempt succeeded although its POST was answered with 403
C3_Witness ==
    \E t \in Threads :
        /\ th[t].last.scheme = "new" /\ th[t].last.ok /\ th[t].last.status = 403
        /\ auth_cookie = th[t].last.cookie

\* C4: the remembered cookie is null at creation, non-null after an
\* authenticate() that returned true, null after one that returned false, and
\* every request of get() carries the remembered cookie while it is non-null.
C4_CookieLifecycle ==
    /\ ((\A t \in Threads : th[t].op = "none") => auth_cookie = None)
    /\ \A t \in {"poll"} :
          /\ (th[t].authret = "True" => auth_cookie # None)
          /\ (th[t].authret = "False" => auth_cookie = None)
          /\ (th[t].sent.remembered # None => th[t].sent.cookie = th[t].sent.remembered)

\* a re-authentication inside get() failed and dropped the cookie it had
C4_Witness ==
    \E t \in {"poll"} :
        /\ Returned(t, "get") /\ th[t].authret = "False"
        /\ th[t].before # None /\ auth_cookie = None
        /\ th[t].sent.remembered # None

\* the claim's retryable statuses
Retryable(status) == (500 <= status /\ status < 600) \/ status = 429 \/ status = 408

\* C5: get() retries a request answered with a retryable status until the
\* retry budget is used up, and returns "" at once on any other non-success
\* status except 403.
C5_RetryableStatuses ==
    \A t \in Threads :
        Returned(t, "get") =>
            \A i \in 1..Len(th[t].getlog) :
                LET e == th[t].getlog[i] IN
                /\ (e.out = "break" /\ Retryable(e.status) /\ i < GetRetries
                      => Len(th[t].getlog) > i)
                /\ (e.out = "break" /\ ~Retryable(e.status)
                      => Len(th[t].getlog) = i /\ th[t].ret = "")

\* C6: after a transport exception get() sends the request again and returns
\* the body of a successful retry; a call makes at most two requests and
\* returns a response body or the empty string.
C6_RetryAfterException ==
    \A t \in Threads :
        LET log == th[t].getlog IN
        th[t].op = "get" =>
            /\ Len(log) <= 2
            /\ (Returned(t, "get") =>
                  /\ th[t].ret \in Bodies
                  /\ (Len(log) >= 1 /\ log[1].out = "exception" => Len(log) = 2)
                  /\ (log # <<>> /\ log[Len(log)].out = "return"
                        => th[t].ret = log[Len(log)].body))

\* the first request raised and the retry was answered with a page
C6_Witness ==
    \E t \in Threads :
        /\ Returned(t, "get") /\ Len(th[t].getlog) = 2
        /\ th[t].getlog[1].out = "exception"
        /\ th[t].getlog[2].out = "return"
        /\ th[t].ret = "page1"

\* C10: validate_input signals cannot-connect when the router was not
\* reached, and invalid-auth only when it was reached and every login attempt
\* was rejected.
C10_ConnectVersusAuth ==
    \A t \in Threads :
        Returned(t, "validate_input") =>
            /\ (~th[t].answered => th[t].ret = "CannotConnect")
            /\ (th[t].ret = "InvalidAuth" =>
                  th[t].answered /\ \A i \in 1..Len(th[t].authlog) : ~th[t].authlog[i].ok)

(***************************************************************************)
(* Part 2: the feature matrix of features.py and the data collection of   *)
(* router_data.py (collect_router_data) and router.py (CudyRouter.get_data).*)
(* One collection is one step: its inputs are the device model, the        *)
(* function the name existing_feature is bound to, and what router.get()   *)
(* returns for every page ("" when the fetch failed).                      *)
(***************************************************************************)
\* const.py lines 9-20, in the order the collectors visit the modules
ModuleOrder ==
    <<"modem", "devices", "system", "data_usage", "sms", "wifi_2g", "wifi_5g",
      "lan", "vpn", "wan", "dhcp", "mesh">>
Modules == {ModuleOrder[i] : i \in 1..Len(ModuleOrder)}

\* Python's None where a string is expected
NoneS == "None"

\* features.py lines 5-45; an entry "key|entity" is the pair <<key, entity>>
features_not_implemented ==
    [m \in {"default", "WR3000S V1.0"} |->
        IF m = "default"
        THEN {<<"wan", f>> : f \in {"protocol", "connected_time", "mac_address",
                  "public_ip", "wan_ip", "subnet_mask", "gateway", "dns",
                  "session_upload", "session_download"}}
        ELSE {<<"modem", f>> : f \in {"signal", "network", "sim", "connected_time",
                  "cell", "rsrp", "rsrq", "sinr", "rssi", "band", "public_ip",
                  "wan_ip", "imei", "imsi", "iccid", "mode", "bandwidth",
                  "session_upload", "session_download"}}
             \cup {<<"data_usage", f>> : f \in {"current_traffic", "monthly_traffic",
                  "total_traffic"}}
             \cup {<<"sms", f>> : f \in {"inbox_count", "outbox_count", "unread_count"}}]

\* features.py lines 48-54
existing_feature(device_model, key_entity, model_entity) ==
    LET m == IF device_model \notin DOMAIN features_not_implemented
             THEN "default" ELSE device_model
    IN <<key_entity, model_entity>> \notin features_not_implemented[m]

\* a call existing_feature(*args): the function has three required
\* positional parameters, any other number of arguments raises TypeError
CallExistingFeature(args) ==
    IF Len(args) = 3
    THEN BoolStr(existing_feature(args[1], args[2], args[3]))
    ELSE "TypeError"

\* the models the collectors are called with
Models == {"default", "WR3000S V1.0", "UNKNOWN MODEL"}

\* the sets of modules the gate of test_router_data_collection.py enables
EnabledSets ==
    {Modules, {}, {"modem", "wan", "mesh"}, Modules \ {"wan"}, {"wan", "dhcp"}, {"mesh"}}

\* what the name existing_feature is bound to in the collecting module: the
\* function of features.py, or the _feature_gate that
\* test_router_data_collection.py puts in its place
Gates ==
    {[fn |-> "existing_feature", enabled |-> {}]}
    \cup {[fn |-> "_feature_gate", enabled |-> e] : e \in EnabledSets}

\* the collectors' call existing_feature(device_model, MODULE_X)
GateCall(gate, args) ==
    IF gate.fn = "existing_feature"
    THEN CallExistingFeature(args)
    ELSE BoolStr(args[2] \in gate.enabled)

(***************************************************************************)
(* Pages.  A status page is "" (the fetch failed), "other" (HTML without   *)
(* the expected content) or "html"; the pages of the table parsers of      *)
(* parser_network.py are the rows <<label, value>> the table extractor     *)
(* yields for them.                                                        *)
(***************************************************************************)
GenericPage(net) ==
    CASE net = "up" -> "html" [] net = "down" -> "" [] OTHER -> "other"

\* a Python dict as a function; dict.get(key) and dict.get(key, default)
Get(d, k) == IF k \in DOMAIN d THEN d[k] ELSE NoneS
GetDefault(d, k, default) == IF k \in DOMAIN d THEN d[k] ELSE default
\* dict.update
Update(d, e) == [k \in DOMAIN d \cup DOMAIN e |-> IF k \in DOMAIN e THEN e[k] ELSE d[k]]
\* truth value of a string or None
Truthy(v) == v # NoneS /\ v # ""

\* parser.py lines 17-25: add_unique; the key label + str(i) is <<label, i>>
RECURSIVE FreeKey(_, _, _)
FreeKey(data, label, i) ==
    IF Truthy(Get(data, <<label, i>>)) THEN FreeKey(data, label, i + 1) ELSE <<label, i>>
add_unique(data, label, value) ==
    Update(data, FreeKey(data, label, 1) :> value)

\* parser.py lines 28-85: parse_tables over the rows of the page; a page
\* without rows ("" or "other") gives the empty dict
RECURSIVE TableRows(_, _, _)
TableRows(rows, i, data) ==
    IF i > Len(rows) THEN data
    ELSE TableRows(rows, i + 1, add_unique(data, rows[i][1], rows[i][2]))
parse_tables(page) == TableRows(page.rows, 1, <<>>)

\* parser_network.py lines 10-16
RECURSIVE pick_first_value(_, _, _)
pick_first_value(raw_data, keys, i) ==
    IF i > Len(keys) THEN NoneS
    ELSE IF Truthy(Get(raw_data, <<keys[i], 1>>)) THEN raw_data[<<keys[i], 1>>]
    ELSE pick_first_value(raw_data, keys, i + 1)

\* str.replace("*", "").strip() on the values of the model
StripStars(v) == IF v = "*203.0.113.10*" THEN "203.0.113.10" ELSE v

\* parser_network.py lines 19-29
clean_text(value) ==
    IF value = NoneS THEN NoneS
    ELSE LET cleaned == StripStars(value) IN
         IF cleaned = "" THEN NoneS
         ELSE IF cleaned \in {"-", "--", "n/a", "na", "unknown"} THEN NoneS
         ELSE cleaned

\* parser_network.py lines 32-40
parse_vpn_status(page) ==
    LET raw_data == parse_tables(page) IN
    [protocol |-> Get(raw_data, <<"Protocol", 1>>),
     vpn_clients |-> Get(raw_data, <<"Devices", 1>>)]

\* parser_network.py lines 43-84; the pages of the model carry none of the
\* labels of connected_time and of the session counters, whose normalizers
\* are then not called (connected_time) or called with "" (the counters)
parse_wan_status(page) ==
    LET raw_data == parse_tables(page) IN
    [protocol |-> clean_text(pick_first_value(raw_data, <<"Protocol", "Connection Type", "WAN Protocol">>, 1)),
     connected_time |-> NoneS,
     mac_address |-> clean_text(pick_first_value(raw_data, <<"MAC-Address", "MAC Address", "WAN MAC">>, 1)),
     public_ip |-> clean_text(pick_first_value(raw_data, <<"Public IP", "Public IPv4", "WAN Public IP">>, 1)),
     wan_ip |-> clean_text(pick_first_value(raw_data, <<"IP Address", "WAN IP", "IP">>, 1)),
     subnet_mask |-> clean_text(pick_first_value(raw_data, <<"Subnet Mask", "Subnet", "Netmask", "Mask">>, 1)),
     gateway |-> clean_text(pick_first_value(raw_data, <<"Gateway", "Default Gateway">>, 1)),
     dns |-> clean_text(pick_first_value(raw_data, <<"DNS", "Preferred DNS", "Primary DNS">>, 1)),
     session_upload |-> NoneS,
     session_download |-> NoneS]

\* parser_network.py lines 87-101
parse_dhcp_status(page) ==
    LET raw_data == parse_tables(page) IN
    [dhcp_ip_start |-> clean_text(pick_first_value(raw_data, <<"IP Start", "Start IP">>, 1)),
     dhcp_ip_end |-> clean_text(pick_first_value(raw_data, <<"IP End", "End IP">>, 1)),
     dhcp_prefered_dns |-> clean_text(pick_first_value(raw_data, <<"Preferred DNS", "DNS", "Primary DNS">>, 1)),
     dhcp_default_gateway |-> clean_text(pick_first_value(raw_data, <<"Default Gateway", "Gateway">>, 1)),
     dhcp_leasetime |-> clean_text(pick_first_value(raw_data, <<"Leasetime", "Lease Time">>, 1))]

\* the number of table rows of a page of the model
MaxRows == 1
\* the labels and values of the rows
RowLabels == {"Protocol", "Public IP", "DNS"}
RowValues == {"", "-", "DHCP", "*203.0.113.10*"}
RECURSIVE RowSeqs(_)
RowSeqs(n) ==
    IF n = 0 THEN {<<>>}
    ELSE RowSeqs(n - 1)
         \cup {Append(r, <<l, v>>) : r \in RowSeqs(n - 1), l \in RowLabels, v \in RowValues}
FailedPage == [text |-> "", rows |-> <<>>]
OtherPage == [text |-> "other", rows |-> <<>>]
TablePages == {FailedPage, OtherPage} \cup {[text |-> "html", rows |-> r] : r \in RowSeqs(MaxRows) \ {<<>>}}
\* a table page as the generic fetch outcome gives it
SamplePage(net) ==
    CASE net = "up" -> [text |-> "html", rows |-> << <<"Protocol", "DHCP">> >>]
      [] net = "down" -> FailedPage
      [] OTHER -> OtherPage

\* router_data.py lines 141-144: a marker occurs in the lower-cased page
HasWanMarker(page) ==
    \E i \in 1..Len(page.rows) : page.rows[i][1] \in {"Protocol", "Public IP"}

\* router_data.py line 146: some parsed entry has a value other than None and ""
AnyValue(fields) == \E k \in DOMAIN fields : Truthy(fields[k])

\* router_data.py lines 134-147 (the WAN page is probed) and router.py lines
\* 748-751 (the WAN page is always parsed)
WanPresent(fn, page) ==
    IF fn = "get_data" THEN TRUE
    ELSE /\ page.text # ""
         /\ HasWanMarker(page)
         /\ AnyValue(parse_wan_status(page))

\* a request of router.get is the pair of its path and of the client= query
\* parameter ("" for the pages that have none)
Requests(urls) == [i \in 1..Len(urls) |-> <<urls[i], "">>]

\* the outcome of one module section: exc is the exception it raised ("" for
\* none), value the entry it stores when present
Stored(value, urls) ==
    [exc |-> "", present |-> TRUE, value |-> value, requests |-> Requests(urls)]

\* router_data.py lines 53-131 and 149-153, router.py lines 667-758: the
\* sections of the modules other than wan and mesh
PlainSection(m, inp) ==
    LET p == GenericPage(inp.net) IN
    CASE m = "modem" ->
           Stored([parser |-> "parse_modem_info", input |-> <<p, p>>],
                  <<"admin/network/gcom/status", "admin/network/gcom/status?detail=1&iface=4g">>)
      [] m = "devices" ->
           IF p = "html"
           THEN Stored([parser |-> "parse_devices", input |-> <<p, p>>],
                       <<"admin/network/devices/devlist?detail=1",
                         "admin/network/devices/status?detail=1">>)
           ELSE Stored([parser |-> "parse_devices", input |-> <<p, p, p>>],
                       <<"admin/network/devices/devlist?detail=1",
                         "admin/network/devices/status?detail=1", "admin/panel">>)
      [] m = "system" ->
           Stored([parser |-> "parse_system_status", input |-> <<p, p, p, p>>],
                  <<"admin/system/status", "admin/panel", "admin/status/overview",
                    "admin/system/system">>)
      [] m = "data_usage" ->
           Stored([parser |-> "parse_data_usage", input |-> <<p>>],
                  <<"admin/network/gcom/statistics?iface=4g">>)
      [] m = "sms" ->
           Stored([parser |-> "parse_sms_status", input |-> <<p>>],
                  <<"admin/network/gcom/sms/status">>)
      [] m = "wifi_2g" ->
           Stored([parser |-> "parse_wifi_status", input |-> <<p>>],
                  <<"admin/network/wireless/status?iface=wlan00">>)
      [] m = "wifi_5g" ->
           Stored([parser |-> "parse_wifi_status", input |-> <<p>>],
                  <<"admin/network/wireless/status?iface=wlan10">>)
      [] m = "lan" ->
           Stored([parser |-> "parse_lan_status", input |-> <<p>>],
                  <<"admin/network/lan/status">>)
      [] m = "vpn" ->
           Stored(parse_vpn_status(SamplePage(inp.net)),
                  <<"admin/network/vpn/openvpns/status?status=">>)
      [] OTHER ->
           Stored(parse_dhcp_status(SamplePage(inp.net)),
                  <<"admin/services/dhcp/status?detail=1">>)

\* router_data.py lines 133-147, router.py lines 747-751
WanSection(fn, inp) ==
    [exc |-> "", present |-> WanPresent(fn, inp.wan),
     value |-> parse_wan_status(inp.wan),
     requests |-> Requests(<<"admin/network/wan/status?detail=1&iface=wan">>)]

(***************************************************************************)
(* Mesh.  MAC addresses are strings: device n is written with or without  *)
(* colons, in upper or lower case; n = 0 is the reserved all-zero id of   *)
(* the main router.                                                        *)
(***************************************************************************)
\* number of mesh satellites with a MAC of their own
MaxMac == 2

MacTable ==
    <<<<"AABBCCDDEE01", "aabbccddee01", "AA:BB:CC:DD:EE:01", "aa:bb:cc:dd:ee:01">>,
      <<"AABBCCDDEE02", "aabbccddee02", "AA:BB:CC:DD:EE:02", "aa:bb:cc:dd:ee:02">>,
      <<"AABBCCDDEE03", "aabbccddee03", "AA:BB:CC:DD:EE:03", "aa:bb:cc:dd:ee:03">>,
      <<"AABBCCDDEE04", "aabbccddee04", "AA:BB:CC:DD:EE:04", "aa:bb:cc:dd:ee:04">>>>
ZeroPlain == "000000000000"
ZeroColon == "00:00:00:00:00:00"
MacText(n, colons, upper) ==
    IF n = 0 THEN (IF colons THEN ZeroColon ELSE ZeroPlain)
    ELSE MacTable[n][(IF colons THEN 2 ELSE 0) + (IF upper THEN 1 ELSE 2)]
MacForms == [n : 0..MaxMac, colons : BOOLEAN, upper : BOOLEAN]
IsMac(s) == \E f \in MacForms : MacText(f.n, f.colons, f.upper) = s
FormOf(s) == CHOOSE f \in MacForms : MacText(f.n, f.colons, f.upper) = s
\* str.upper() and str.replace(":", "") on the strings of the model
StrUpper(s) == IF IsMac(s) THEN MacText(FormOf(s).n, FormOf(s).colons, TRUE) ELSE s
StripColons(s) ==
    CASE IsMac(s) -> MacText(FormOf(s).n, FALSE, FormOf(s).upper)
      [] s = "02:53:41:54:45:4C" -> "02534154454C"
      [] s = "02:73:61:74:65:6C" -> "02736174656C"
      [] s = "02:4D:41:49:4E:52" -> "024D41494E52"
      [] OTHER -> s
\* the ids of the model that are not 12 characters long
ShortId == "abc"
JunkMac == "AB:C::::"
\* router_data.py lines 228, 255, 271: ":".join(id[i:i+2] ...).upper()
format_mac(client_id) ==
    IF IsMac(client_id) /\ ~FormOf(client_id).colons
    THEN MacText(FormOf(client_id).n, TRUE, TRUE)
    ELSE JunkMac
\* router_data.py line 215: len(mac) == 12
Len12(client_id) == IsMac(client_id) /\ ~FormOf(client_id).colons
\* router_data.py line 309: f"Mesh Device {client_mac[-6:]}"
GeneratedNames ==
    <<<<"Mesh Device DDEE01", "Mesh Device ddee01", "mesh device ddee01">>,
      <<"Mesh Device DDEE02", "Mesh Device ddee02", "mesh device ddee02">>,
      <<"Mesh Device DDEE03", "Mesh Device ddee03", "mesh device ddee03">>,
      <<"Mesh Device DDEE04", "Mesh Device ddee04", "mesh device ddee04">>>>
mesh_device_name(client_mac) ==
    IF FormOf(client_mac).n = 0 THEN "Mesh Device 000000"
    ELSE GeneratedNames[FormOf(client_mac).n][IF FormOf(client_mac).upper THEN 1 ELSE 2]

\* the display names of the model and str.lower() on them
DisplayNames == {"Satellite", "SATELLITE", "Main Router"}
StrLower(s) ==
    CASE s \in {"Satellite", "SATELLITE"} -> "satellite"
      [] s = "Main Router" -> "main router"
      [] s = "Mesh Device 000000" -> "mesh device 000000"
      [] \E n \in 1..Len(GeneratedNames) : s \in {GeneratedNames[n][1], GeneratedNames[n][2]} ->
            GeneratedNames[CHOOSE n \in 1..Len(GeneratedNames) :
                               s \in {GeneratedNames[n][1], GeneratedNames[n][2]}][3]
      [] OTHER -> s

\* parser.py lines 626-640: the pseudo-MAC is a function of the name only; the
\* digest is not computed, every name has a MAC text of its own
generate_pseudo_mac(name) ==
    CASE name = "Satellite" -> "02:53:41:54:45:4C"
      [] name = "SATELLITE" -> "02:73:61:74:65:6C"
      [] OTHER -> "02:4D:41:49:4E:52"

\* a dict key that is not set
Absent == "<absent>"
\* an "id" that is a JSON number
IntId == "<int>"

\* int(mesh_units) on the values of the model; -1 stands for ValueError
IntOf(v) == IF v = "3" THEN 3 ELSE IF v = "1" THEN 1 ELSE -1
Max(a, b) == IF a >= b THEN a ELSE b

\* parser.py lines 744-760: drop the main router and repeated MACs
MainRouterNames == {"main router", "mainrouter", "main_router", "router"}
RECURSIVE UniqueDevices(_, _, _, _)
UniqueDevices(raw, i, seen_macs, unique_devices) ==
    IF i > Len(raw) THEN unique_devices
    ELSE LET device == raw[i]
             mac == StrUpper(GetDefault(device, "mac_address", ""))
             name == IF Truthy(Get(device, "name")) THEN StrLower(device["name"]) ELSE ""
         IN IF GetDefault(device, "is_main_router", "") = "True" \/ name \in MainRouterNames
            THEN UniqueDevices(raw, i + 1, seen_macs, unique_devices)
            ELSE IF mac # "" /\ mac \notin seen_macs
            THEN UniqueDevices(raw, i + 1, seen_macs \cup {mac}, Append(unique_devices, device))
            ELSE UniqueDevices(raw, i + 1, seen_macs, unique_devices)

\* parser.py lines 643-654 and 762-774: the data parse_mesh_devices returns
\* for the devices kept; mesh_devices is the dict in insertion order
MeshData(page, unique_devices) ==
    [mesh_count |-> [value |-> IF Len(unique_devices) > 0 THEN Len(unique_devices)
                               ELSE IF Truthy(page.units) /\ IntOf(page.units) >= 0
                               THEN Max(0, IntOf(page.units) - 1) ELSE 0],
     mesh_devices |-> [i \in 1..Len(unique_devices) |->
                         [key |-> unique_devices[i]["mac_address"],
                          dev |-> unique_devices[i]]],
     main_router_name |-> IF Truthy(page.device_name) THEN page.device_name ELSE NoneS,
     main_router_led_status |-> Absent]

\* parser.py lines 643-774: parse_mesh_devices; page.raw is the list
\* mesh_devices the extraction patterns produced, page.units and
\* page.device_name the "Mesh Units" and "Device Name" table entries
parse_mesh_devices(page) ==
    IF page.text = ""
    THEN [mesh_count |-> [value |-> 0], mesh_devices |-> <<>>, main_router_name |-> NoneS,
          main_router_led_status |-> Absent]
    ELSE MeshData(page, UniqueDevices(page.raw, 1, {}, <<>>))

\* parser.py lines 848-858: None (the empty dict here) unless something
\* meaningful was found
Meaningful(device_info) ==
    IF \/ Truthy(device_info["name"]) \/ Truthy(device_info["mac_address"])
       \/ Truthy(device_info["model"]) \/ device_info["connected_devices"] # 0
    THEN device_info ELSE <<>>

\* parser.py lines 777-858: parse_mesh_client_status; detail.fields are the
\* labelled values of the devstatus page, detail.rows the device rows of the
\* devlist page (-1 when the devlist fetch failed)
parse_mesh_client_status(detail) ==
    IF detail.devstatus = "" THEN <<>>
    ELSE Meaningful(
            Update([k \in {"model", "name", "ip_address", "mac_address",
                           "firmware_version", "backhaul"} |-> NoneS]
                   @@ ("connected_devices" :> 0) @@ ("status" :> "online"),
                   detail.fields
                   @@ (IF detail.rows >= 0 THEN "connected_devices" :> detail.rows ELSE <<>>)))

\* str.split(" ")[0] on the hardware names of the model
FirstWord(h) == IF h = "RE1200 V1.0" THEN "RE1200" ELSE h

\* router_data.py line 242 and router.py line 846
ClientStatus(fn, state) ==
    IF state = "connected" THEN "online"
    ELSE IF fn = "get_data" THEN "online" ELSE "offline"

\* router_data.py lines 232-245: the entry of one client object
JsonClientInfo(fn, c, sys, formatted_mac) ==
    [name |-> c.name,
     model |-> IF GetDefault(sys, "hardware", "") # ""
               THEN FirstWord(GetDefault(sys, "hardware", ""))
               ELSE IF Truthy(Get(sys, "board")) THEN sys["board"] ELSE Get(sys, "model"),
     firmware_version |-> Get(sys, "firmware"),
     ip_address |-> Get(sys, "ipaddr"),
     mac_address |-> formatted_mac,
     hardware |-> GetDefault(sys, "hardware", ""),
     status |-> ClientStatus(fn, c.state),
     led_status |-> Get(sys, "ledstatus")]

\* router_data.py lines 219-249: json_client_data; exc is the exception raised
RECURSIVE JsonClientData(_, _, _, _)
JsonClientData(fn, clients, i, acc) ==
    IF i > Len(clients) THEN [exc |-> "", map |-> acc]
    ELSE IF ~clients[i].isdict \/ ~Truthy(clients[i].id)
    THEN JsonClientData(fn, clients, i + 1, acc)
    ELSE IF clients[i].id = IntId THEN [exc |-> "TypeError", map |-> acc]
    ELSE IF clients[i].sysreport.kind = "null" THEN [exc |-> "AttributeError", map |-> acc]
    ELSE JsonClientData(fn, clients, i + 1,
            Update(acc, format_mac(clients[i].id) :>
                        JsonClientInfo(fn, clients[i], clients[i].sysreport.dict,
                                       format_mac(clients[i].id))))

\* router_data.py lines 298-305: html_info merged into client_info
MergeHtmlInfo(client_info, html_info) ==
    [key \in DOMAIN client_info \cup DOMAIN html_info |->
        IF key \notin DOMAIN html_info THEN client_info[key]
        ELSE IF key = "connected_devices" THEN html_info[key]
        ELSE IF key \notin DOMAIN client_info
                \/ ~Truthy(client_info[key]) \/ client_info[key] = "Unknown"
             THEN html_info[key]
             ELSE client_info[key]]

\* str.startswith("mesh_"): no MAC text of the model starts with it
StartsWithMesh(mac) == mac \in {"mesh_0", "mesh_1"}

\* router_data.py lines 323-343: the first entry that matches by MAC or by
\* placeholder name; how is "mac", "name", "none" or the exception raised
RECURSIVE FindDevice(_, _, _, _)
FindDevice(devices, i, client_mac, client_name) ==
    IF i > Len(devices) THEN [how |-> "none", at |-> 0]
    ELSE IF StrUpper(StripColons(devices[i].key)) = StrUpper(client_mac)
    THEN [how |-> "mac", at |-> i]
    ELSE IF GetDefault(devices[i].dev, "name", "") = NoneS
    THEN [how |-> "AttributeError", at |-> i]
    ELSE IF StrLower(GetDefault(devices[i].dev, "name", "")) = StrLower(client_name)
            /\ StartsWithMesh(devices[i].key)
    THEN [how |-> "name", at |-> i]
    ELSE FindDevice(devices, i + 1, client_mac, client_name)

\* list.pop of entry at, in place
RemoveAt(seq, at) == [i \in 1..(Len(seq) - 1) |-> IF i < at THEN seq[i] ELSE seq[i + 1]]
\* dict[key] = value on the ordered dict
SetKey(devices, key, value) ==
    IF \E i \in 1..Len(devices) : devices[i].key = key
    THEN [i \in 1..Len(devices) |->
            IF devices[i].key = key THEN [key |-> key, dev |-> value] ELSE devices[i]]
    ELSE Append(devices, [key |-> key, dev |-> value])

\* router_data.py lines 254-268: the reserved id of the main router
MainRouterLed_skip(json_client_data, st) == st
MainRouterLed(json_client_data, st) ==
    IF ZeroColon \in DOMAIN json_client_data
    THEN [st EXCEPT !.led = json_client_data[ZeroColon]["led_status"]]
    ELSE st

\* router_data.py lines 307-310: the required fields
RequiredFields(client_mac, formatted_mac, client_info) ==
    Update(IF Truthy(Get(client_info, "name")) THEN client_info
           ELSE Update(client_info, "name" :> mesh_device_name(client_mac)),
           "mac_address" :> formatted_mac)

\* router_data.py lines 273-310: client_info of one client
ClientInfo(client_mac, formatted_mac, json_client_data, detail) ==
    RequiredFields(client_mac, formatted_mac,
        MergeHtmlInfo(IF formatted_mac \in DOMAIN json_client_data
                      THEN json_client_data[formatted_mac] ELSE <<>>,
                      parse_mesh_client_status(detail)))

\* router_data.py lines 323-348: update, replace or add the entry
Placed(formatted_mac, client_info, found, st) ==
    CASE found.how = "mac" ->
           [st EXCEPT !.devices[found.at].dev = Update(@, client_info)]
      [] found.how = "name" ->
           [st EXCEPT !.devices = SetKey(RemoveAt(@, found.at), formatted_mac, client_info)]
      [] found.how = "none" ->
           [st EXCEPT !.devices = SetKey(@, formatted_mac, client_info)]
      [] OTHER -> [st EXCEPT !.exc = found.how]

PlaceClient(client_mac, formatted_mac, client_info, st) ==
    Placed(formatted_mac, client_info,
           FindDevice(st.devices, 1, client_mac, client_info["name"]), st)

\* router_data.py lines 279-285: the two detail pages of a client
DetailRequests(client_mac) ==
    << <<"admin/network/mesh/client/devstatus?embedded=", client_mac>>,
       <<"admin/network/mesh/client/devlist?embedded=", client_mac>> >>

\* router_data.py lines 270-348: one client that is not the main router
ReconcileClient(client_mac, json_client_data, detail, st) ==
    PlaceClient(client_mac, format_mac(client_mac),
                ClientInfo(client_mac, format_mac(client_mac), json_client_data, detail),
                [st EXCEPT !.requests = @ \o DetailRequests(client_mac)])

\* router_data.py lines 251-348: the loop over client_macs in the order the
\* list(set(...)) gave them
RECURSIVE Reconcile(_, _, _, _, _)
Reconcile(order, i, json_client_data, detail, st) ==
    IF i > Len(order) \/ st.exc # "" THEN st
    ELSE Reconcile(order, i + 1, json_client_data, detail,
            IF order[i] = ZeroPlain
            THEN MainRouterLed(json_client_data, st)
            ELSE ReconcileClient(order[i], json_client_data, detail, st))

\* router_data.py lines 192-215: the ids of the clients JSON and of the tab
\* ids of the mesh HTML
RECURSIVE JsonIds(_, _)
JsonIds(clients, i) ==
    IF i > Len(clients) THEN {}
    ELSE (IF clients[i].isdict /\ Truthy(clients[i].id) THEN {clients[i].id} ELSE {})
         \cup JsonIds(clients, i + 1)
ClientsJson(mesh) == IF mesh.clients.kind = "array" THEN mesh.clients.items ELSE <<>>
FoundIds(mesh) ==
    JsonIds(ClientsJson(mesh), 1) \cup {mesh.page.tabs[i] : i \in 1..Len(mesh.page.tabs)}
ClientMacs(mesh) == {id \in FoundIds(mesh) : Len12(id)}

\* the orders in which a set can be listed
RECURSIVE Orders(_)
Orders(S) ==
    IF S = {} THEN {<<>>}
    ELSE UNION {{<<x>> \o o : o \in Orders(S \ {x})} : x \in S}

MeshEndpoints ==
    <<"admin/network/mesh/status", "admin/network/mesh", "admin/network/mesh/topology",
      "admin/network/mesh/nodes", "admin/easymesh/status", "admin/easymesh">>

MeshRequests == Requests(MeshEndpoints \o <<"admin/network/mesh/clients?clients=all">>)

\* the section raised exc
MeshRaised(exc, mesh_data) ==
    [exc |-> exc, present |-> FALSE, value |-> mesh_data, requests |-> MeshRequests]

\* router_data.py line 350: data[MODULE_MESH] = mesh_data
MeshResult(mesh_data, st) ==
    [exc |-> st.exc, present |-> st.exc = "",
     value |-> [mesh_data EXCEPT !.mesh_devices = st.devices,
                                 !.main_router_led_status = st.led],
     requests |-> st.requests]

\* router_data.py lines 217-348
MeshWithJson(mesh, order, mesh_data, json) ==
    IF json.exc # "" THEN MeshRaised(json.exc, mesh_data)
    ELSE MeshResult(mesh_data,
            Reconcile(order, 1, json.map, mesh.detail,
                      [exc |-> "", devices |-> mesh_data.mesh_devices,
                       led |-> Absent, requests |-> MeshRequests]))

\* router_data.py lines 182-348
MeshFrom(fn, mesh, order, mesh_data) ==
    IF IntId \in FoundIds(mesh) THEN MeshRaised("TypeError", mesh_data)
    ELSE MeshWithJson(mesh, order, mesh_data, JsonClientData(fn, ClientsJson(mesh), 1, <<>>))

\* router_data.py lines 155-350, router.py lines 759-954: the mesh section
MeshSection(fn, inp, order) ==
    MeshFrom(fn, inp.mesh, order, parse_mesh_devices(inp.mesh.page))

(***************************************************************************)
(* The inputs of a collection.                                             *)
(***************************************************************************)
\* a device dict as the extractors of parser.py lines 861-1135 build it
HtmlDevice(mac, name) ==
    ("mac_address" :> mac) @@ ("name" :> name) @@ ("model" :> NoneS)
    @@ ("firmware_version" :> NoneS) @@ ("status" :> "online") @@ ("ip_address" :> NoneS)

\* no endpoint returned mesh HTML
EmptyMeshPage == [text |-> "", raw |-> <<>>, units |-> "", device_name |-> "", tabs |-> <<>>]
MeshPage(raw, tabs) ==
    [text |-> "html", raw |-> raw, units |-> "", device_name |-> "", tabs |-> tabs]
MeshPages ==
    {EmptyMeshPage,
     [text |-> "html", raw |-> <<>>, units |-> "3", device_name |-> "Main Router", tabs |-> <<>>],
     [text |-> "html", raw |-> <<>>, units |-> "x", device_name |-> "", tabs |-> <<ZeroPlain>>],
     MeshPage(<<HtmlDevice(generate_pseudo_mac("Satellite"), "Satellite")>>, <<>>),
     MeshPage(<<HtmlDevice(MacText(1, TRUE, TRUE), "Satellite"),
                HtmlDevice(MacText(1, TRUE, TRUE), NoneS)>>, <<>>),
     MeshPage(<<HtmlDevice(MacText(1, TRUE, TRUE), "Satellite"),
                HtmlDevice(MacText(1, FALSE, TRUE), "Satellite")>>, <<>>),
     MeshPage(<<[HtmlDevice(MacText(1, TRUE, TRUE), "Satellite")
                    EXCEPT !["firmware_version"] = "1.0.0"]>>, <<>>),
     MeshPage(<<HtmlDevice(ZeroColon, "Satellite")>>, <<ZeroPlain>>)}
    \cup {MeshPage(<<HtmlDevice(MacText(n, c, TRUE), name)>>,
                    IF t = "none" THEN <<>> ELSE <<MacText(n, FALSE, t = "upper")>>) :
            n \in 1..MaxMac, c \in BOOLEAN, name \in {NoneS, "Satellite", "Main Router"},
            t \in {"none", "upper", "lower"}}

\* the sysreport entry of a client object: missing, null or an object
FullSysReport ==
    [kind |-> "dict",
     dict |-> ("hardware" :> "RE1200 V1.0") @@ ("firmware" :> "2.3.4") @@ ("ledstatus" :> "on")]
SysReports ==
    {[kind |-> "absent", dict |-> <<>>], [kind |-> "null", dict |-> <<>>],
     [kind |-> "dict", dict |-> <<>>], FullSysReport}
ClientIds ==
    {NoneS, IntId, ShortId, ZeroPlain} \cup {MacText(n, FALSE, u) : n \in 1..MaxMac, u \in BOOLEAN}
\* client objects: every id and name with a full sysreport, every state and
\* sysreport for the first satellite, and a satellite named as the main router
Clients ==
    [isdict : {TRUE}, id : ClientIds, name : {NoneS, "Satellite"},
     state : {"connected"}, sysreport : {FullSysReport}]
    \cup [isdict : {TRUE}, id : {MacText(1, FALSE, TRUE)}, name : {NoneS},
          state : {"connected", "disconnected"}, sysreport : SysReports]
    \cup [isdict : {TRUE}, id : {MacText(1, FALSE, TRUE)}, name : {"Main Router"},
          state : {"connected"}, sysreport : {FullSysReport}]
NotAnObject ==
    [isdict |-> FALSE, id |-> NoneS, name |-> NoneS, state |-> NoneS,
     sysreport |-> [kind |-> "absent", dict |-> <<>>]]
MainRouterClient ==
    [isdict |-> TRUE, id |-> ZeroPlain, name |-> "Main Router", state |-> "connected",
     sysreport |-> [kind |-> "dict", dict |-> "ledstatus" :> "on"]]
\* the response of admin/network/mesh/clients?clients=all: empty, text
\* without an array, an array that is not JSON, or a JSON array
ClientsResults ==
    {[kind |-> k, items |-> <<>>] : k \in {"empty", "text", "badjson", "array"}}
    \cup {[kind |-> "array", items |-> <<NotAnObject>>]}
    \cup {[kind |-> "array", items |-> <<c>>] : c \in Clients}
    \cup {[kind |-> "array", items |-> <<MainRouterClient, c>>] :
            c \in {x \in Clients : x.id = MacText(1, FALSE, TRUE) /\ x.name = NoneS
                                   /\ x.sysreport.kind = "dict"}}

\* the devstatus and devlist pages of a mesh client
Details ==
    {[devstatus |-> "", fields |-> <<>>, rows |-> -1],
     [devstatus |-> "html", fields |-> <<>>, rows |-> -1],
     [devstatus |-> "html", fields |-> ("backhaul" :> "5G") @@ ("model" :> "RE1200"), rows |-> 2],
     [devstatus |-> "html",
      fields |-> ("name" :> "SATELLITE") @@ ("firmware_version" :> "1.0.0"), rows |-> 0]}

MeshInputs == [page : MeshPages, clients : ClientsResults, detail : Details]
NoMesh ==
    [page |-> EmptyMeshPage, clients |-> [kind |-> "empty", items |-> <<>>],
     detail |-> [devstatus |-> "", fields |-> <<>>, rows |-> -1]]

\* the calls of the model: every gate and model with all pages fetched,
\* failed or without content; every WAN page; every mesh input
GateOf(enabled) == [fn |-> "_feature_gate", enabled |-> enabled]
Calls ==
    {[gate |-> g, model |-> m, inp |-> [net |-> n, wan |-> SamplePage(n), mesh |-> NoMesh]] :
        g \in Gates, m \in Models, n \in {"up", "down", "other"}}
    \cup {[gate |-> GateOf(e), model |-> "default",
           inp |-> [net |-> "up", wan |-> w, mesh |-> NoMesh]] :
            e \in {Modules, {"wan", "dhcp"}}, w \in TablePages}
    \cup {[gate |-> GateOf(e), model |-> "default",
           inp |-> [net |-> "up", wan |-> SamplePage("up"), mesh |-> x]] :
            e \in {{"mesh"}}, x \in MeshInputs}

\* one module section
Section(fn, m, inp, order) ==
    CASE m = "wan" -> WanSection(fn, inp)
      [] m = "mesh" -> MeshSection(fn, inp, order)
      [] OTHER -> PlainSection(m, inp)

\* data[MODULE] = ... after a section that did not raise
Merged(acc, m, s) ==
    [exc |-> s.exc,
     data |-> IF s.present THEN Update(acc.data, m :> s.value) ELSE acc.data,
     requests |-> acc.requests \o s.requests]

\* if existing_feature(device_model, MODULE) is True: ...
Gated(supported, fn, m, inp, order, acc) ==
    IF supported = "TypeError" THEN [acc EXCEPT !.exc = "TypeError"]
    ELSE IF supported # "True" THEN acc
    ELSE Merged(acc, m, Section(fn, m, inp, order))

\* router_data.py lines 51-352, router.py lines 665-956: the sections in
\* order, each behind its call of existing_feature(device_model, MODULE)
RECURSIVE CollectFrom(_, _, _, _, _, _, _)
CollectFrom(fn, gate, device_model, inp, order, i, acc) ==
    IF i > Len(ModuleOrder) \/ acc.exc # "" THEN acc
    ELSE CollectFrom(fn, gate, device_model, inp, order, i + 1,
            Gated(GateCall(gate, <<device_model, ModuleOrder[i]>>),
                  fn, ModuleOrder[i], inp, order, acc))

\* the collection returned or raised; its fetches went through get(), which
\* may have re-authenticated and left another session cookie
Collected(fn, c, out) ==
    /\ poll' = [IdlePoll EXCEPT !.pc = "done", !.fn = fn, !.model = c.model,
                                !.gate = c.gate, !.inp = c.inp, !.exc = out.exc,
                                !.data = out.data, !.requests = out.requests]
    /\ IF out.requests = <<>>
       THEN UNCHANGED <<auth_cookie, jar>>
       ELSE /\ auth_cookie' \in {None} \cup CookieValues
            /\ jar' = auth_cookie'

\* the collection of fn for the call c
Collection(fn, c, order) ==
    CollectFrom(fn, c.gate, c.model, c.inp, order, 1,
                [exc |-> "", data |-> <<>>, requests |-> <<>>])

\* router_data.py lines 43-352
collect_router_data ==
    /\ poll.pc = "idle"
    /\ \E c \in Calls :
         \E order \in Orders(ClientMacs(c.inp.mesh)) :
            Collected("collect_router_data", c, Collection("collect_router_data", c, order))
    /\ UNCHANGED th

\* router.py lines 662-956
get_data ==
    /\ poll.pc = "idle"
    /\ \E c \in Calls :
         \E order \in Orders(ClientMacs(c.inp.mesh)) :
            Collected("get_data", c, Collection("get_data", c, order))
    /\ UNCHANGED th

\* coordinator.py lines 46-59: what _async_update_data does with the outcome
\* of get_data; timed_out says that asyncio.timeout(REQUEST_TIMEOUT) expired
\* before get_data was done
UpdateOutcome_reraise(timed_out, out) ==
    IF timed_out THEN [exc |-> "UpdateFailed", data |-> <<>>]
    ELSE [exc |-> out.exc, data |-> out.data]
UpdateOutcome(timed_out, out) ==
    IF timed_out \/ out.exc # "" THEN [exc |-> "UpdateFailed", data |-> <<>>]
    ELSE [exc |-> "", data |-> out.data]

\* the polls of the model: no mesh HTML, every clients response
UpdateCalls == {c \in Calls : c.inp.mesh.page = EmptyMeshPage}

\* the poll returned or raised
Updated(c, timed_out, out, res) ==
    /\ poll' = [IdlePoll EXCEPT !.pc = "done", !.fn = "_async_update_data",
                                !.model = c.model, !.gate = c.gate, !.inp = c.inp,
                                !.exc = res.exc, !.data = res.data,
                                !.requests = out.requests, !.timed_out = timed_out,
                                !.inner = [exc |-> out.exc, data |-> out.data]]
    /\ IF out.requests = <<>>
       THEN UNCHANGED <<auth_cookie, jar>>
       ELSE /\ auth_cookie' \in {None} \cup CookieValues
            /\ jar' = auth_cookie'

UpdatedFrom(c, timed_out, out) == Updated(c, timed_out, out, UpdateOutcome(timed_out, out))

\* coordinator.py lines 46-59: one poll
async_update_data ==
    /\ poll.pc = "idle"
    /\ \E c \in UpdateCalls, timed_out \in BOOLEAN :
         \E order \in Orders(ClientMacs(c.inp.mesh)) :
            UpdatedFrom(c, timed_out, Collection("get_data", c, order))
    /\ UNCHANGED th

\* the entities sensor.py asks the matrix about
FeatureFields == {"protocol", "signal", "inbox_count", "ssid"}
FeatureArgs ==
    {<<m, k>> : m \in Models, k \in Modules}
    \cup {<<m, k, f>> : m \in Models, k \in Modules, f \in FeatureFields}

\* a call of features.existing_feature with two or three arguments
CallFeature ==
    /\ poll.pc = "idle"
    /\ \E args \in FeatureArgs :
         poll' = [IdlePoll EXCEPT !.pc = "called", !.fn = "existing_feature",
                                  !.args = args, !.result = CallExistingFeature(args)]
    /\ UNCHANGED <<auth_cookie, jar, th>>

\* the result has been taken
PollDone ==
    /\ poll.pc # "idle"
    /\ poll' = IdlePoll
    /\ UNCHANGED <<auth_cookie, jar, th>>

NextCollect ==
    \/ collect_router_data
    \/ get_data
    \/ async_update_data
    \/ CallFeature
    \/ PollDone

SpecCollect == Init /\ [][NextCollect]_vars

(***************************************************************************)
(* Properties of the collection.                                           *)
(***************************************************************************)
Collectors == {"collect_router_data", "get_data"}
\* a collection has returned or raised
CollectDone == poll.pc = "done" /\ poll.fn \in Collectors
\* the modules whose fields the model computes
TableModules == {"vpn", "wan", "dhcp"}

\* C7: get_data and collect_router_data return a snapshot and never raise,
\* for every model name, every combination of fetch results and every mesh
\* clients response; when the fetches failed, a module is absent or its
\* fields are null.
C7_NeverRaises ==
    CollectDone =>
        /\ poll.exc = ""
        /\ (poll.inp.net = "down" =>
              \A m \in DOMAIN poll.data \cap TableModules :
                 \A k \in DOMAIN poll.data[m] : poll.data[m][k] = NoneS)

\* C8: a module is a key of the returned snapshot if and only if the gate
\* marks it supported for the model, whatever the pages contain.
C8_ModuleIffSupported ==
    CollectDone /\ poll.exc = "" =>
        \A m \in Modules :
            m \in DOMAIN poll.data <=> GateCall(poll.gate, <<poll.model, m>>) = "True"

\* C9: existing_feature(model, module) answers for an unknown model as for
\* "default", answers True for every module under "default", False for the
\* modem and True for the devices of "WR3000S V1.0"; a collection for
\* "WR3000S V1.0" returns a snapshot without the modem module and with the
\* devices module.
C9_FeatureGating ==
    /\ (poll.pc = "called" /\ Len(poll.args) = 2 =>
          /\ poll.result # "TypeError"
          /\ (poll.args[1] \notin DOMAIN features_not_implemented =>
                poll.result = CallExistingFeature(<<"default", poll.args[2]>>))
          /\ (poll.args[1] = "default" => poll.result = "True")
          /\ (poll.args = <<"WR3000S V1.0", "modem">> => poll.result = "False")
          /\ (poll.args = <<"WR3000S V1.0", "devices">> => poll.result = "True"))
    /\ (CollectDone /\ poll.gate.fn = "existing_feature" /\ poll.model = "WR3000S V1.0" =>
          /\ poll.exc = ""
          /\ "modem" \notin DOMAIN poll.data
          /\ "devices" \in DOMAIN poll.data)

\* a poll has returned or raised
UpdateDone == poll.pc = "done" /\ poll.fn = "_async_update_data"

\* C11: a poll either returns the snapshot of get_data unchanged or raises
\* UpdateFailed; a timeout and any exception raised inside get_data both
\* give UpdateFailed and no other exception.
C11_PollOutcomes ==
    UpdateDone =>
        \/ /\ poll.exc = ""
           /\ ~poll.timed_out /\ poll.inner.exc = ""
           /\ poll.data = poll.inner.data
        \/ /\ poll.exc = "UpdateFailed"
           /\ poll.timed_out \/ poll.inner.exc # ""
\* get_data raised inside a poll that did not time out
C11_Witness ==
    /\ UpdateDone /\ ~poll.timed_out
    /\ poll.inner.exc = "AttributeError" /\ poll.exc = "UpdateFailed"

\* a MAC text without its colons and in upper case
Canon(mac) == StrUpper(StripColons(mac))
\* a collection has returned a snapshot with the mesh module
MeshReturned == CollectDone /\ poll.exc = "" /\ "mesh" \in DOMAIN poll.data
\* the client objects of the clients response that name a satellite
SatelliteClients ==
    {c \in {ClientsJson(poll.inp.mesh)[k] : k \in 1..Len(ClientsJson(poll.inp.mesh))} :
        c.isdict /\ Len12(c.id) /\ c.id # ZeroPlain}

\* C12: the final mesh_devices holds exactly one record per MAC, however the
\* sources spell it; for a client of the clients JSON that record has the
\* firmware_version of the JSON when the JSON gives one, and the
\* connected_devices of the client's HTML detail pages when they were parsed.
C12_MergeByMac ==
    MeshReturned =>
        LET devices == poll.data["mesh"].mesh_devices IN
        /\ \A i, j \in 1..Len(devices) :
              i # j => Canon(devices[i].key) # Canon(devices[j].key)
        /\ \A c \in SatelliteClients :
              \E i \in 1..Len(devices) :
                 /\ Canon(devices[i].key) = Canon(c.id)
                 /\ (Truthy(Get(c.sysreport.dict, "firmware")) =>
                       devices[i].dev["firmware_version"] = c.sysreport.dict["firmware"])
                 /\ (parse_mesh_client_status(poll.inp.mesh.detail) # <<>> =>
                       devices[i].dev["connected_devices"]
                         = parse_mesh_client_status(poll.inp.mesh.detail)["connected_devices"])

\* the devices of the mesh page that carry a pseudo-MAC made from their name
Placeholders ==
    {d \in {poll.inp.mesh.page.raw[k] : k \in 1..Len(poll.inp.mesh.page.raw)} :
        Truthy(d["name"]) /\ d["mac_address"] = generate_pseudo_mac(d["name"])}

\* C13: when a client with a real MAC and the display name of a placeholder
\* (compared without case) has been reconciled, the placeholder record is
\* gone: the unit has one record, not two.
C13_PlaceholderReplaced ==
    MeshReturned =>
        LET devices == poll.data["mesh"].mesh_devices IN
        \A d \in Placeholders :
            (\E i \in 1..Len(devices) :
                /\ devices[i].key # d["mac_address"]
                /\ StrLower(devices[i].dev["name"]) = StrLower(d["name"]))
            => \A j \in 1..Len(devices) : devices[j].key # d["mac_address"]

\* C14: no record of the mesh_devices of a returned mesh module is flagged as
\* the main router or carries one of the main-router names, compared without
\* case.
C14_NoMainRouterRecord ==
    MeshReturned =>
        LET devices == poll.data["mesh"].mesh_devices IN
        \A i \in 1..Len(devices) :
            /\ GetDefault(devices[i].dev, "is_main_router", "") # "True"
            /\ StrLower(GetDefault(devices[i].dev, "name", "")) \notin MainRouterNames

\* the requests of a collection
Requested == {poll.requests[i] : i \in 1..Len(poll.requests)}
\* the pages of one mesh client
DetailPages(id) == {DetailRequests(id)[1], DetailRequests(id)[2]}
\* the client object of the clients JSON that json_client_data keeps for the
\* reserved id (the last one)
MainRouterClients ==
    {k \in 1..Len(ClientsJson(poll.inp.mesh)) :
        ClientsJson(poll.inp.mesh)[k].isdict /\ ClientsJson(poll.inp.mesh)[k].id = ZeroPlain}

\* C15: for the reserved id 000000000000 no detail page is requested and no
\* mesh_devices record is added or changed, and the led status of its JSON
\* client becomes main_router_led_status; for every other 12-digit id found
\* both detail pages are requested.
C15_ReservedId ==
    MeshReturned =>
        LET devices == poll.data["mesh"].mesh_devices
            parsed == parse_mesh_devices(poll.inp.mesh.page).mesh_devices
        IN /\ DetailPages(ZeroPlain) \cap Requested = {}
           /\ \A i \in 1..Len(devices) :
                 Canon(devices[i].key) = ZeroPlain =>
                    \E k \in 1..Len(parsed) : parsed[k] = devices[i]
           /\ \A k \in MainRouterClients :
                 (\A l \in MainRouterClients : l <= k) =>
                    poll.data["mesh"].main_router_led_status
                      = Get(ClientsJson(poll.inp.mesh)[k].sysreport.dict, "ledstatus")
           /\ \A id \in ClientMacs(poll.inp.mesh) \ {ZeroPlain} :
                 DetailPages(id) \subseteq Requested
\* the main router's client object and a satellite were both found
C15_Witness ==
    /\ MeshReturned
    /\ MainRouterClients # {}
    /\ poll.data["mesh"].main_router_led_status = "on"
    /\ ClientMacs(poll.inp.mesh) \ {ZeroPlain} # {}
    /\ Len(poll.data["mesh"].mesh_devices) = 1

\* the records of an ordered dict, without their order
Records(devices) == {devices[i] : i \in 1..Len(devices)}
\* a collection reached its mesh section
MeshReached ==
    /\ CollectDone
    /\ poll.gate.fn = "_feature_gate" /\ "mesh" \in poll.gate.enabled

\* C16: the mesh module does not depend on the order in which the found
\* client ids are processed: for the pages of the collection, every order of
\* the ids gives the outcome the collection had, with the same mesh_devices
\* keys and field values.
C16_OrderIndependent ==
    MeshReached =>
        \A order \in Orders(ClientMacs(poll.inp.mesh)) :
            LET other == MeshSection(poll.fn, poll.inp, order) IN
            /\ other.exc = poll.exc
            /\ (poll.exc = "" =>
                  /\ Records(other.value.mesh_devices)
                       = Records(poll.data["mesh"].mesh_devices)
                  /\ other.value.main_router_led_status
                       = poll.data["mesh"].main_router_led_status)

(***************************************************************************)
(* The action methods of the router client: each returns the pair          *)
(* (status, text); the model keeps the status and the statuses with which  *)
(* the router answered the POSTs of the call.                              *)
(***************************************************************************)
ActionStatuses == {200, 302, 403}

\* the answer to a GET of a form page: token is the value of the hidden
\* token input ("" when the page has none), band says whether the page has a
\* select whose name contains "band", login whether it is the login form
ActionPages ==
    [kind : {"response"}, status : {200, 404}, token : {"", "tok"},
     band : BOOLEAN, login : BOOLEAN]
RaisedGet ==
    [kind |-> "exception", status |-> 0, token |-> "", band |-> FALSE, login |-> FALSE]
ActionGets == {RaisedGet} \cup ActionPages
\* pages without the details only some methods look at
PlainGets == {g \in ActionGets : ~g.band /\ ~g.login}
BandGets == {g \in ActionGets : ~g.login}
LoginGets == {g \in ActionGets : ~g.band}

\* the answer to a POST
ActionPosts ==
    {[kind |-> "exception", status |-> 0]} \cup [kind : {"response"}, status : ActionStatuses]

_extract_hidden(page) == page.token

Returns(status, posts, cookie) == [status |-> status, posts |-> posts, cookie |-> cookie]

\* GET the page, take its token, POST the form, return the POST's status;
\* any exception and a missing token (or band select) give status 0
FormAction(get, needs_band, post, cookie) ==
    IF get.kind = "exception" THEN Returns(0, <<>>, cookie)
    ELSE IF _extract_hidden(get) = "" THEN Returns(0, <<>>, cookie)
    ELSE IF needs_band /\ ~get.band THEN Returns(0, <<>>, cookie)
    ELSE IF post.kind = "exception" THEN Returns(0, <<>>, cookie)
    ELSE Returns(post.status, <<post.status>>, cookie)

\* the method returned: its status and the answered POSTs are recorded
ActionReturned(fn, out) ==
    /\ poll' = [IdlePoll EXCEPT !.pc = "done", !.fn = fn, !.status = out.status,
                                !.posts = out.posts]
    /\ auth_cookie' = out.cookie

reboot_router ==
    /\ poll.pc = "idle"
    /\ \E get \in PlainGets, post \in ActionPosts :
          ActionReturned("reboot_router", FormAction(get, FALSE, post, auth_cookie))
    /\ UNCHANGED <<jar, th>>

restart_5g_connection ==
    /\ poll.pc = "idle"
    /\ \E get \in PlainGets, post \in ActionPosts :
          ActionReturned("restart_5g_connection", FormAction(get, FALSE, post, auth_cookie))
    /\ UNCHANGED <<jar, th>>

switch_5g_band ==
    /\ poll.pc = "idle"
    /\ \E get \in BandGets, post \in ActionPosts :
          ActionReturned("switch_5g_band", FormAction(get, TRUE, post, auth_cookie))
    /\ UNCHANGED <<jar, th>>

send_sms ==
    /\ poll.pc = "idle"
    /\ \E get \in PlainGets, post \in ActionPosts :
          ActionReturned("send_sms", FormAction(get, FALSE, post, auth_cookie))
    /\ UNCHANGED <<jar, th>>

send_at_command ==
    /\ poll.pc = "idle"
    /\ \E get \in PlainGets, post \in ActionPosts :
          ActionReturned("send_at_command", FormAction(get, FALSE, post, auth_cookie))
    /\ UNCHANGED <<jar, th>>

\* the cookie after "if self.auth_cookie: ... else: authenticate()": login is
\* the cookie authenticate() ends with, None when it returns False
EnsureAuth(cookie, login) == IF cookie # None THEN cookie ELSE login

\* set_mesh_led and set_main_router_led after their authentication prologue
LedAfterLogin(get, post, cookie) ==
    IF cookie = None THEN Returns(0, <<>>, None)
    ELSE FormAction([get EXCEPT !.login = FALSE], FALSE, post, cookie)

LedAction(cookie, get, relogin, get2, post) ==
    IF cookie = None THEN Returns(0, <<>>, None)
    ELSE IF get.kind = "exception" THEN Returns(0, <<>>, cookie)
    ELSE IF get.login THEN LedAfterLogin(get2, post, relogin)
    ELSE FormAction(get, FALSE, post, cookie)

set_mesh_led ==
    /\ poll.pc = "idle"
    /\ \E login \in {None} \cup CookieValues, get \in LoginGets,
          relogin \in {None} \cup CookieValues, get2 \in PlainGets, post \in ActionPosts :
          ActionReturned("set_mesh_led",
                         LedAction(EnsureAuth(auth_cookie, login), get, relogin, get2, post))
    /\ jar' = auth_cookie'
    /\ UNCHANGED th

set_main_router_led ==
    /\ poll.pc = "idle"
    /\ \E login \in {None} \cup CookieValues, get \in LoginGets,
          relogin \in {None} \cup CookieValues, get2 \in PlainGets, post \in ActionPosts :
          ActionReturned("set_main_router_led",
                         LedAction(EnsureAuth(auth_cookie, login), get, relogin, get2, post))
    /\ jar' = auth_cookie'
    /\ UNCHANGED th

\* reboot_mesh_device tries three JSON endpoints with GET, then three form
\* endpoints with three POST patterns each
RebootEndpoints == 1..3
\* a JSON endpoint raises, answers 200 with {"status": "ok"}, or answers
\* anything else
JsonAnswers == {"exception", "ok", "other"}
JsonAcknowledged(json) == \E i \in RebootEndpoints : json[i] = "ok"

\* the POSTs to one form endpoint: none when its GET raises or answers 404 or
\* the first POST raises, else the three patterns are answered
FormPosts(get, post) ==
    IF get.kind = "exception" \/ get.status = 404 \/ post.kind = "exception"
    THEN <<>>
    ELSE <<post.status, post.status, post.status>>

RebootReturn(posts) == 200

RebootAction(cookie, json, fget, fpost) ==
    IF cookie = None THEN Returns(0, <<>>, None)
    ELSE IF JsonAcknowledged(json) THEN Returns(200, <<>>, cookie)
    ELSE Returns(RebootReturn(FormPosts(fget[1], fpost[1]) \o FormPosts(fget[2], fpost[2])
                                \o FormPosts(fget[3], fpost[3])),
                 FormPosts(fget[1], fpost[1]) \o FormPosts(fget[2], fpost[2])
                     \o FormPosts(fget[3], fpost[3]),
                 cookie)

reboot_mesh_device ==
    /\ poll.pc = "idle"
    /\ \E login \in {None} \cup CookieValues,
          json \in [RebootEndpoints -> JsonAnswers],
          fget \in [RebootEndpoints -> PlainGets],
          fpost \in [RebootEndpoints -> ActionPosts] :
          ActionReturned("reboot_mesh_device",
                         RebootAction(EnsureAuth(auth_cookie, login), json, fget, fpost))
    /\ jar' = auth_cookie'
    /\ UNCHANGED th

NextAction ==
    \/ reboot_router
    \/ restart_5g_connection
    \/ switch_5g_band
    \/ send_sms
    \/ send_at_command
    \/ reboot_mesh_device
    \/ set_mesh_led
    \/ set_main_router_led
    \/ PollDone

SpecAction == Init /\ [][NextAction]_vars

ActionMethods ==
    {"reboot_router", "restart_5g_connection", "switch_5g_band", "send_sms",
     "send_at_command", "reboot_mesh_device", "set_mesh_led", "set_main_router_led"}
ActionDone == poll.pc = "done" /\ poll.fn \in ActionMethods
Acknowledged == {poll.posts[i] : i \in 1..Len(poll.posts)}

\* C17: an action method never raises, and it returns a status in {200, 302}
\* only when the router answered a POST of the call with that status.
C17_StatusIsAcknowledgement ==
    ActionDone =>
        /\ poll.exc = ""
        /\ (poll.status \in {200, 302} => poll.status \in Acknowledged)


(***************************************************************************)
(* The parsers as functions of their input: a call is drawn by InitParse   *)
(* and applied by the action of its function.                              *)
(***************************************************************************)
MaxTableRows == 3
\* rows of a status table: the label cell and the value cell, "" for a row
\* that has only its label
TableLabels == {"SCC", "DNS"}
TableValues == {"", "a", "b"}
RECURSIVE TableSeqs(_)
TableSeqs(n) ==
    IF n = 0 THEN {<<>>}
    ELSE TableSeqs(n - 1)
         \cup {Append(r, <<l, v>>) : r \in TableSeqs(n - 1), l \in TableLabels,
                                     v \in TableValues}
TableCalls ==
    {[fn |-> "parse_tables", inp |-> [text |-> "html", rows |-> r]] :
        r \in TableSeqs(MaxTableRows)}

(***************************************************************************)
(* The normalizers.  A string is the sequence of its words, the pieces     *)
(* between single spaces: <<>> is "", <<"100", "Mbps">> is "100 Mbps".     *)
(***************************************************************************)
\* the words made of digits: what int(word), int(word, 16) give
DigitTable ==
    << [word |-> "0", int |-> 0, hex |-> 0], [word |-> "1", int |-> 1, hex |-> 1],
       [word |-> "3", int |-> 3, hex |-> 3], [word |-> "5", int |-> 5, hex |-> 5],
       [word |-> "7", int |-> 7, hex |-> 7], [word |-> "20", int |-> 20, hex |-> 32],
       [word |-> "78", int |-> 78, hex |-> 120], [word |-> "100", int |-> 100, hex |-> 256],
       [word |-> "1024", int |-> 1024, hex |-> 4132],
       [word |-> "00", int |-> 0, hex |-> 0], [word |-> "01", int |-> 1, hex |-> 1],
       [word |-> "02", int |-> 2, hex |-> 2], [word |-> "03", int |-> 3, hex |-> 3],
       [word |-> "6", int |-> 6, hex |-> 6], [word |-> "10", int |-> 10, hex |-> 16],
       [word |-> "11", int |-> 11, hex |-> 17], [word |-> "15", int |-> 15, hex |-> 21],
       [word |-> "16", int |-> 16, hex |-> 22], [word |-> "21", int |-> 21, hex |-> 33] >>
DigitWords == {DigitTable[i].word : i \in 1..Len(DigitTable)}
DigitRow(word) == DigitTable[CHOOSE i \in 1..Len(DigitTable) : DigitTable[i].word = word]
\* the other words int(word, 16) accepts
HexOnly == ("a" :> 10) @@ ("aa" :> 170) @@ ("bb" :> 187) @@ ("cc" :> 204) @@ ("B3" :> 179)
\* the words float(word) accepts that int(word) does not, in hundredths
Decimals == ("1.5" :> 150) @@ ("219.49" :> 21949)
IsFloat(word) == word \in DigitWords \cup DOMAIN Decimals
\* float(word) in hundredths
Hundredths(word) == IF word \in DigitWords THEN 100 * DigitRow(word).int ELSE Decimals[word]
\* the words the pattern [\d.]+ matches whole
DigitsAndDots == DigitWords \cup DOMAIN Decimals \cup {"1.2.3", "."}

\* str.lower() of a word
LowerWord(word) ==
    CASE word = "Mbps" -> "mbps" [] word = "GB" -> "gb" [] word = "MB" -> "mb"
      [] word = "KB" -> "kb" [] word = "TB" -> "tb" [] word = "B" -> "b"
      [] word \in {"BAND", "Band"} -> "band" [] word = "MHz" -> "mhz"
      [] word = "LTE" -> "lte" [] word = "B3" -> "b3" [] word = "Day" -> "day"
      [] OTHER -> word
\* str.split(): the words that are not empty
RECURSIVE SplitWs(_)
SplitWs(w) ==
    IF w = <<>> THEN <<>>
    ELSE IF w[1] = "" THEN SplitWs(Tail(w)) ELSE <<w[1]>> \o SplitWs(Tail(w))

\* the values returned: None, a number (num hundredths, times 2^exp; for a
\* duration num seconds less late microseconds) or a string
NoneV == [kind |-> "None", num |-> 0, exp |-> 0, late |-> 0, str |-> ""]
Num(n, e) == [kind |-> "number", num |-> n, exp |-> e, late |-> 0, str |-> ""]
Str(v) == [kind |-> "str", num |-> 0, exp |-> 0, late |-> 0, str |-> v]
Ret(v) == [exc |-> "", data |-> v]
Raise(e) == [exc |-> e, data |-> NoneV]

\* round(a / b) for a, b in the same unit
RoundDiv(a, b) == (2 * a + b) \div (2 * b)

\* parser.py lines 88-101; the result is in hundredths of Mbit/s
SpeedUnits == {"kbps", "mbps", "gbps", "bps"}
SpeedValue(amount, unit) ==
    CASE unit = "kbps" -> Num(RoundDiv(amount, 1024), 0)
      [] unit = "mbps" -> Num(amount, 0)
      [] unit = "gbps" -> Num(amount * 1024, 0)
      [] OTHER -> Num(RoundDiv(amount, 1024 * 1024), 0)
FloatOrRaise(word, unit) ==
    IF IsFloat(word) THEN Ret(SpeedValue(Hundredths(word), unit)) ELSE Raise("ValueError")
parse_speed(w) ==
    IF w = <<>> THEN Ret(NoneV)
    ELSE IF Len(w) >= 2 /\ LowerWord(w[Len(w)]) \in SpeedUnits
    THEN FloatOrRaise(w[1], LowerWord(w[Len(w)]))
    ELSE Ret(Num(0, 0))

\* parser.py lines 176-186; int() strips the white space around the digits
\* the words with a sign that int(word) accepts
SignedInts == ("-65" :> -65) @@ ("-1" :> -1)
IntValue(word) == IF word \in DigitWords THEN DigitRow(word).int ELSE SignedInts[word]
as_int(w) ==
    IF w = <<>> THEN Ret(NoneV)
    ELSE IF Len(SplitWs(w)) = 1 /\ SplitWs(w)[1] \in DigitWords \cup DOMAIN SignedInts
    THEN Ret(Num(100 * IntValue(SplitWs(w)[1]), 0))
    ELSE Ret(NoneV)

\* parser.py lines 188-198
HexValue(word) == IF word \in DigitWords THEN DigitRow(word).hex ELSE HexOnly[word]
hex_as_int(w) ==
    IF w = <<>> THEN Ret(NoneV)
    ELSE IF Len(SplitWs(w)) = 1 /\ SplitWs(w)[1] \in DigitWords \cup DOMAIN HexOnly
    THEN Ret(Num(100 * HexValue(SplitWs(w)[1]), 0))
    ELSE Ret(NoneV)

\* parser.py lines 200-225; the band "B" + digits is the string of its digits
\* under the key band
Band(digits) == [kind |-> "band", num |-> 0, exp |-> 0, late |-> 0, str |-> digits]
BandIds == ("B3" :> "3") @@ ("n78" :> "78")
\* pattern 1: BAND <digits> / <digits> MHz
Pattern1(w) ==
    {i \in 1..Len(w) - 4 :
        /\ LowerWord(w[i]) = "band" /\ w[i + 1] \in DigitWords /\ w[i + 2] = "/"
        /\ w[i + 3] \in DigitWords /\ LowerWord(w[i + 4]) = "mhz"}
\* pattern 3: Band <digits>
Pattern3(w) ==
    {i \in 1..Len(w) - 1 : LowerWord(w[i]) = "band" /\ w[i + 1] \in DigitWords}
Least(S) == CHOOSE i \in S : \A j \in S : i <= j
get_band(w) ==
    IF w = <<>> THEN Ret(NoneV)
    ELSE IF Pattern1(w) # {} THEN Ret(Band(w[Least(Pattern1(w)) + 1]))
    ELSE IF Len(SplitWs(w)) = 1 /\ SplitWs(w)[1] \in DOMAIN BandIds
    THEN Ret(Band(BandIds[SplitWs(w)[1]]))
    ELSE IF Pattern3(w) # {} THEN Ret(Band(w[Least(Pattern3(w)) + 1]))
    ELSE IF Len(SplitWs(w)) = 1 /\ SplitWs(w)[1] \in DigitWords
    THEN Ret(Band(SplitWs(w)[1]))
    ELSE Ret(NoneV)

\* parser.py lines 379-399: the pattern ([\d.]+)\s*(KB|MB|GB|TB|B) matched at
\* the start without regard to case; the result is num hundredths of a
\* megabyte times 2^exp
SizeUnits ==
    ("GB" :> 10) @@ ("MB" :> 0) @@ ("KB" :> -10) @@ ("TB" :> 20) @@ ("B" :> -20)
      @@ ("gbps" :> 10) @@ ("Mbps" :> 0) @@ ("kbps" :> -10) @@ ("bps" :> -20)
      @@ ("BAND" :> -20) @@ ("Band" :> -20)
SizeValue(word, unit) ==
    IF IsFloat(word) THEN Ret(Num(Hundredths(word), SizeUnits[unit])) ELSE Raise("ValueError")
parse_data_size(w) ==
    IF w = <<>> THEN Ret(NoneV)
    ELSE IF Len(SplitWs(w)) >= 2 /\ SplitWs(w)[1] \in DigitsAndDots
            /\ SplitWs(w)[2] \in DOMAIN SizeUnits
    THEN SizeValue(SplitWs(w)[1], SplitWs(w)[2])
    ELSE Ret(NoneV)

\* parser.py lines 228-252.  The words with two colons and their fields:
ColonFields ==
    ("01:02:03" :> <<"01", "02", "03">>) @@ ("01:00:00" :> <<"01", "00", "00">>)
      @@ ("aa:bb:cc" :> <<"aa", "bb", "cc">>) @@ ("::" :> <<"", "", "">>)
      @@ ("01:xx:03" :> <<"01", "xx", "03">>)
\* as_int of one word: its number, or -1 for None
WordInt(word) == IF word \in DigitWords THEN DigitRow(word).int ELSE -1
\* the clock of a call: the days the month and the year before now have, and
\* the microseconds between the two readings of datetime.now()
MaxTick == 1
Clocks == [month : 28..31, year : 365..366, tick : 0..MaxTick]
\* relativedelta(...) raises TypeError for a count that is None; seconds is
\* the sum of the hours, minutes, seconds, days and weeks
NoDuration == [exc |-> "", years |-> 0, months |-> 0, seconds |-> 0]
Plus(d, field, count, unit) ==
    IF count < 0 THEN [d EXCEPT !.exc = "TypeError"]
    ELSE [d EXCEPT ![field] = @ + count * unit]
PlusClock(d, f) ==
    IF WordInt(f[1]) < 0 \/ WordInt(f[2]) < 0 \/ WordInt(f[3]) < 0
    THEN [d EXCEPT !.exc = "TypeError"]
    ELSE [d EXCEPT !.seconds = @ + 3600 * WordInt(f[1]) + 60 * WordInt(f[2]) + WordInt(f[3])]
RECURSIVE DurationParts(_, _, _)
DurationParts(parts, i, d) ==
    IF i > Len(parts) \/ d.exc # "" THEN d
    ELSE IF parts[i] \in DOMAIN ColonFields
    THEN DurationParts(parts, i + 1, PlusClock(d, ColonFields[parts[i]]))
    ELSE IF i = 1 THEN DurationParts(parts, i + 1, d)
    ELSE IF parts[i] \in {"year", "years"}
    THEN DurationParts(parts, i + 1, Plus(d, "years", WordInt(parts[i - 1]), 1))
    ELSE IF parts[i] \in {"month", "months"}
    THEN DurationParts(parts, i + 1, Plus(d, "months", WordInt(parts[i - 1]), 1))
    ELSE IF parts[i] \in {"week", "weeks"}
    THEN DurationParts(parts, i + 1, Plus(d, "seconds", WordInt(parts[i - 1]), 7 * 86400))
    ELSE IF parts[i] \in {"day", "days"}
    THEN DurationParts(parts, i + 1, Plus(d, "seconds", WordInt(parts[i - 1]), 86400))
    ELSE DurationParts(parts, i + 1, d)
\* datetime.now() - (datetime.now() - duration): the months and years are
\* taken off the second reading of the clock by the calendar
Elapsed(d, clock) ==
    [kind |-> "number",
     num |-> d.seconds + 86400 * (clock.month * d.months + clock.year * d.years),
     exp |-> 0, late |-> clock.tick, str |-> ""]
DurationOf(d, clock) == IF d.exc # "" THEN Raise(d.exc) ELSE Ret(Elapsed(d, clock))
LowerAll(w) == [i \in 1..Len(w) |-> LowerWord(w[i])]
get_seconds_duration(w, clock) ==
    IF w = <<>> THEN Ret(NoneV)
    ELSE DurationOf(DurationParts(SplitWs(LowerAll(w)), 1, NoDuration), clock)

\* the strings given to the normalizers
NormInputs ==
    { <<>>, <<"-">>, <<"x">>, <<"5">>, <<"a">>, <<"1.5">>,
      <<"100", "Mbps">>, <<"1024", "kbps">>, <<"1.5", "gbps">>, <<"1024", "bps">>,
      <<"x", "kbps">>, <<"-", "Mbps">>, <<"", "kbps">>,
      <<"219.49", "GB">>, <<"100", "MB">>, <<"1.2.3", "MB">>, <<".", "KB">>,
      <<"x", "MB">>, <<"5", "B">>, <<"1.5", "TB">>,
      <<"01:02:03">>, <<"1", "day", "01:00:00">>, <<"1", "Day", "01:02:03">>,
      <<"aa:bb:cc">>, <<"::">>, <<"01:xx:03">>,
      <<"x", "days">>, <<"x", "weeks">>, <<"x", "months">>, <<"x", "years">>,
      <<"1", "week">>, <<"1", "month">>, <<"1", "year">>, <<"days">>,
      <<"BAND", "3", "/", "20", "MHz">>, <<"B3">>, <<"n78">>, <<"LTE", "Band", "3">>,
      <<"7">>, <<"Band", "x">> }
Normalizers ==
    {"parse_speed", "parse_data_size", "get_seconds_duration", "get_band", "as_int",
     "hex_as_int"}
NormCalls == [fn : Normalizers, inp : NormInputs]

\* parser.py lines 402-461: the system status page by the values of its rows,
\* each label occurring once; <<>> and "" stand for a row that is absent or
\* has no value
DurationInputs ==
    { <<>>, <<"-">>, <<"01:02:03">>, <<"1", "day", "01:00:00">>, <<"1", "Day", "01:02:03">>,
      <<"1", "week">>, <<"1", "month">>, <<"1", "year">>, <<"aa:bb:cc">> }
SystemPages ==
    [uptime : DurationInputs, system_uptime : {<<>>, <<"01:00:00">>},
     firmware : {"", "1.0.0"}, local_time : {"", "12:00"}]
\* raw_data.get(a) or raw_data.get(b) or ""
UptimeStr(page) == IF page.uptime # <<>> THEN page.uptime ELSE page.system_uptime
StrOrNone(v) == IF v = "" THEN NoneV ELSE Str(v)
SystemStatus(page, uptime_seconds) ==
    IF uptime_seconds.exc # "" THEN [exc |-> uptime_seconds.exc, data |-> <<>>]
    ELSE [exc |-> "",
          data |-> [uptime |-> uptime_seconds.data,
                    local_time |-> StrOrNone(page.local_time),
                    firmware_version |-> StrOrNone(page.firmware)]]
parse_system_status(page, clock) ==
    SystemStatus(page, get_seconds_duration(UptimeStr(page), clock))
SystemCalls == [fn : {"parse_system_status"}, inp : SystemPages]

\* parser.py lines 160-173: rssi is what as_int returned; "if rssi" is false
\* for None and for 0
Unavailable == [kind |-> "unavailable", num |-> 0, exp |-> 0, late |-> 0, str |-> ""]
Bucket(rssi) ==
    IF rssi > 20 THEN 4 ELSE IF rssi > 15 THEN 3 ELSE IF rssi > 10 THEN 2
    ELSE IF rssi > 5 THEN 1 ELSE 0
get_signal_strength(rssi) ==
    IF rssi.kind = "number" /\ rssi.num # 0 THEN Num(100 * Bucket(rssi.num \div 100), 0)
    ELSE Unavailable

\* parser.py lines 283-340: the modem page by the values of its rows, each
\* label occurring once, <<>> for a row that is absent or has no value; the
\* pages of the model have no Connected Time, Cell ID and Upload / Download
\* rows
RssiInputs ==
    { <<>>, <<"x">>, <<"-65">>, <<"-1">>, <<"0">>, <<"5">>, <<"6">>, <<"10">>, <<"11">>,
      <<"15">>, <<"16">>, <<"20">>, <<"21">> }
ModemPages ==
    [rssi : RssiInputs, band : {<<>>, <<"3">>}, dl_bandwidth : {<<>>, <<"20", "MHz">>},
     pcc : {<<>>, <<"BAND", "1", "/", "20", "MHz">>}, scc : {<<>>, <<"B7">>},
     scc1 : {<<>>, <<"5">>}, scc2 : {<<>>, <<"n78">>},
     scc3 : {<<>>, <<"LTE", "Band", "20">>}, scc4 : {<<>>, <<"Band", "100">>}]
\* a or b
Or(a, b) == IF a # <<>> THEN a ELSE b
\* lines 295-299
Pcc(page) ==
    Or(page.pcc,
       IF page.band # <<>> /\ page.dl_bandwidth # <<>>
       THEN <<"BAND">> \o page.band \o <<"/">> \o page.dl_bandwidth
       ELSE page.band)
\* "+".join(filter(None, ...)) or None: the joined tokens in their order
RECURSIVE NonNull(_)
NonNull(bands) ==
    IF bands = <<>> THEN <<>>
    ELSE IF Head(bands) = NoneV THEN NonNull(Tail(bands))
    ELSE <<Head(bands).str>> \o NonNull(Tail(bands))
Joined(bands) ==
    IF NonNull(bands) = <<>> THEN [kind |-> "None", parts |-> <<>>]
    ELSE [kind |-> "str", parts |-> NonNull(bands)]
JoinedBands(pcc, scc1, scc2, scc3, scc4) == <<pcc, scc1, scc2, scc3>>
ModemInfo(rssi, pcc, scc1, scc2, scc3, scc4) ==
    [signal |-> get_signal_strength(rssi),
     rssi |-> rssi,
     band |-> [value |-> Joined(JoinedBands(pcc, scc1, scc2, scc3, scc4)),
               attributes |-> [pcc |-> pcc, scc1 |-> scc1, scc2 |-> scc2,
                               scc3 |-> scc3, scc4 |-> scc4]]]
parse_modem_info(page) ==
    Ret(ModemInfo(as_int(page.rssi).data, get_band(Pcc(page)).data,
                  get_band(Or(page.scc, page.scc1)).data, get_band(page.scc2).data,
                  get_band(page.scc3).data, get_band(page.scc4).data))
ModemCalls == [fn : {"parse_modem_info"}, inp : ModemPages]

\* parser.py lines 522-625: the devices status page by the values of its
\* rows; of the labels tried for a count the first and the last are rows of
\* the model, and the pages carry no script with client counts
CountInputs == {<<>>, <<"0">>, <<"3">>}
DevicesPages ==
    [g2_clients : CountInputs, g2_wifi : CountInputs, g5_clients : CountInputs,
     g5_wifi : CountInputs, wired : CountInputs \cup {<<"x">>},
     total_clients : CountInputs, connected : CountInputs]
\* Python's "a or b" on what as_int returns: None and 0 are false
PyOr(a, b) == IF a.kind = "number" /\ a.num # 0 THEN a ELSE b
\* a or 0
OrZero(a) == IF a.kind = "number" THEN a.num ELSE 0
\* lines 606-608
Total(wifi_2g, wifi_5g, wired, total) ==
    IF total = NoneV /\ (wifi_2g # NoneV \/ wifi_5g # NoneV)
    THEN Num(OrZero(wifi_2g) + OrZero(wifi_5g) + OrZero(wired), 0)
    ELSE total
DevicesStatus(wifi_2g, wifi_5g, wired, total) ==
    [wifi_2g_clients |-> wifi_2g, wifi_5g_clients |-> wifi_5g, wired_clients |-> wired,
     total_clients |-> Total(wifi_2g, wifi_5g, wired, total)]
parse_devices_status(page) ==
    Ret(DevicesStatus(PyOr(as_int(page.g2_clients).data, as_int(page.g2_wifi).data),
                      PyOr(as_int(page.g5_clients).data, as_int(page.g5_wifi).data),
                      as_int(page.wired).data,
                      PyOr(as_int(page.total_clients).data, as_int(page.connected).data)))
DevicesCalls == [fn : {"parse_devices_status"}, inp : DevicesPages]

ParseCalls == TableCalls \cup NormCalls \cup SystemCalls \cup ModemCalls \cup DevicesCalls

InitParse ==
    /\ auth_cookie = None
    /\ jar = None
    /\ th = [t \in Threads |-> IdleFrame]
    /\ \E c \in ParseCalls : poll = [IdlePoll EXCEPT !.pc = "call", !.fn = c.fn, !.inp = c.inp]

Parsed(out) ==
    /\ poll' = [poll EXCEPT !.pc = "done", !.exc = out.exc, !.data = out.data]
    /\ UNCHANGED <<auth_cookie, jar, th>>

ParseTables ==
    /\ poll.pc = "call" /\ poll.fn = "parse_tables"
    /\ Parsed([exc |-> "", data |-> parse_tables(poll.inp)])

ParseSpeed ==
    /\ poll.pc = "call" /\ poll.fn = "parse_speed"
    /\ Parsed(parse_speed(poll.inp))

ParseDataSize ==
    /\ poll.pc = "call" /\ poll.fn = "parse_data_size"
    /\ Parsed(parse_data_size(poll.inp))

GetSecondsDuration ==
    /\ poll.pc = "call" /\ poll.fn = "get_seconds_duration"
    /\ \E clock \in Clocks : Parsed(get_seconds_duration(poll.inp, clock))

GetBand ==
    /\ poll.pc = "call" /\ poll.fn = "get_band"
    /\ Parsed(get_band(poll.inp))

AsInt ==
    /\ poll.pc = "call" /\ poll.fn = "as_int"
    /\ Parsed(as_int(poll.inp))

HexAsInt ==
    /\ poll.pc = "call" /\ poll.fn = "hex_as_int"
    /\ Parsed(hex_as_int(poll.inp))

ParseSystemStatus ==
    /\ poll.pc = "call" /\ poll.fn = "parse_system_status"
    /\ \E clock \in Clocks : Parsed(parse_system_status(poll.inp, clock))

ParseModemInfo ==
    /\ poll.pc = "call" /\ poll.fn = "parse_modem_info"
    /\ Parsed(parse_modem_info(poll.inp))

ParseDevicesStatus ==
    /\ poll.pc = "call" /\ poll.fn = "parse_devices_status"
    /\ Parsed(parse_devices_status(poll.inp))

NextParse ==
    \/ ParseDevicesStatus
    \/ ParseModemInfo
    \/ ParseTables
    \/ ParseSystemStatus
    \/ ParseSpeed
    \/ ParseDataSize
    \/ GetSecondsDuration
    \/ GetBand
    \/ AsInt
    \/ HexAsInt

SpecParse == InitParse /\ [][NextParse]_vars

TablesParsed == poll.pc = "done" /\ poll.fn = "parse_tables"
\* the map after the first n rows of the page
AfterRows(page, n) == parse_tables([page EXCEPT !.rows = SubSeq(page.rows, 1, n)])

\* C18: the table extractor never overwrites an entry: each row leaves every
\* entry already in the map with its value, and after the rows of the page
\* the map has one entry per row.
C18_NeverOverwrites ==
    TablesParsed =>
        /\ \A n \in 1..Len(poll.inp.rows) :
              \A k \in DOMAIN AfterRows(poll.inp, n - 1) :
                  /\ k \in DOMAIN AfterRows(poll.inp, n)
                  /\ AfterRows(poll.inp, n)[k] = AfterRows(poll.inp, n - 1)[k]
        /\ Cardinality(DOMAIN poll.data) = Len(poll.inp.rows)


Normalized == poll.pc = "done" /\ poll.fn \in Normalizers

\* C19: every normalizer is total on strings: it returns (None, its fallback
\* or a value) for every input and never raises.
C19_NormalizersTotal ==
    Normalized => poll.exc = ""


Outcome == [exc |-> poll.exc, data |-> poll.data]
DurationDone == poll.pc = "done" /\ poll.fn = "get_seconds_duration"
SystemDone == poll.pc = "done" /\ poll.fn = "parse_system_status"

\* C20: parsing is deterministic: a call at any other time returns what the
\* call returned, and a duration is the exact number of seconds of its
\* string: "01:02:03" gives 3723 and "1 day 01:00:00" gives 90000.
C20_Deterministic ==
    /\ DurationDone =>
          /\ \A clock \in Clocks : get_seconds_duration(poll.inp, clock) = Outcome
          /\ (poll.inp = <<"01:02:03">> => poll.data = Num(3723, 0))
          /\ (poll.inp = <<"1", "day", "01:00:00">> => poll.data = Num(90000, 0))
    /\ SystemDone =>
          \A clock \in Clocks : parse_system_status(poll.inp, clock) = Outcome


ModemDone == poll.pc = "done" /\ poll.fn = "parse_modem_info"
\* the integer RSSI of the page: what int() gives for its row
KnownRssi(page) == Len(page.rssi) = 1 /\ page.rssi[1] \in DigitWords \cup DOMAIN SignedInts

\* C21: the signal is the bucket of every integer RSSI of the page, zero and
\* negative values included, and "unavailable" only when the page has no
\* integer RSSI.
C21_SignalBuckets ==
    ModemDone =>
        IF KnownRssi(poll.inp)
        THEN poll.data.signal = Num(100 * Bucket(IntValue(poll.inp.rssi[1])), 0)
        ELSE poll.data.signal = Unavailable

BandTokens(a) == <<a.pcc, a.scc1, a.scc2, a.scc3, a.scc4>>

\* C22: the band value joins exactly the non-null tokens of PCC, SCC1, SCC2,
\* SCC3 and SCC4 in that order, and is null when all five are null.
C22_BandJoinsComponents ==
    ModemDone =>
        poll.data.band.value = Joined(BandTokens(poll.data.band.attributes))


DevicesDone == poll.pc = "done" /\ poll.fn = "parse_devices_status"
\* the count a page gives under two labels: the first that is an integer
Known(a, b) == IF as_int(a).data # NoneV THEN as_int(a).data ELSE as_int(b).data
Known2g(page) == Known(page.g2_clients, page.g2_wifi)
Known5g(page) == Known(page.g5_clients, page.g5_wifi)
KnownWired(page) == as_int(page.wired).data
KnownTotal(page) == Known(page.total_clients, page.connected)

\* C23: when the page gives no total but a count of 2.4G, 5G or wired
\* clients (0 included), total_clients is the sum of the known counts, and a
\* category whose count is 0 is reported as 0.
C23_PartialCounts ==
    DevicesDone =>
        /\ (/\ KnownTotal(poll.inp) = NoneV
            /\ \/ Known2g(poll.inp) # NoneV
               \/ Known5g(poll.inp) # NoneV
               \/ KnownWired(poll.inp) # NoneV)
           => poll.data.total_clients
                = Num(OrZero(Known2g(poll.inp)) + OrZero(Known5g(poll.inp))
                        + OrZero(KnownWired(poll.inp)), 0)
        /\ (Known2g(poll.inp) = Num(0, 0) => poll.data.wifi_2g_clients = Num(0, 0))
        /\ (Known5g(poll.inp) = Num(0, 0) => poll.data.wifi_5g_clients = Num(0, 0))
        /\ (KnownWired(poll.inp) = Num(0, 0) => poll.data.wired_clients = Num(0, 0))


\* validate_input has called get_model()
ModelReturned(t) == th[t].op = "validate_input" /\ th[t].got # ""
ModelKeys == (Banners \ {""}) \cup {"default"}

\* C24: get_model() returns a feature-matrix key, the banner of the login
\* page or "default" when there is none or the page cannot be fetched, and the
\* model validate_input gives to the config entry is never empty or false.
C24_ModelIsKey ==
    \A t \in Threads :
        ModelReturned(t) =>
            /\ th[t].got \in ModelKeys
            /\ th[t].model \in ModelKeys


(***************************************************************************)
(* The integration in Home Assistant: config entries, the coordinators in  *)
(* hass.data, the services and the config flows (__init__.py,              *)
(* config_flow.py, const.py, coordinator.py).  The state of Home Assistant *)
(* is poll.hass.                                                           *)
(***************************************************************************)
DEFAULT_SCAN_INTERVAL == 60
MIN_SCAN_INTERVAL == 15
MAX_SCAN_INTERVAL == 3600

\* a value given as scan interval: None, an int, a bool, a float (num in
\* tenths) or a string
ScanValue(type, num, str) == [type |-> type, num |-> num, str |-> str]
ScanInt(n) == ScanValue("int", n, "")
ScanInputs ==
    {ScanValue("None", 0, ""), ScanValue("bool", 1, "")}
      \cup {ScanInt(n) : n \in {-5, 0, 5, 14, 15, 16, 60, 3600, 3601, 5000}}
      \cup {ScanValue("float", n, "") : n \in {-5, 149, 175, 600, 36009}}
      \cup {ScanValue("str", 0, v) : v \in {"invalid", "", "20", "1.5", "-65", "1024"}}
\* int(value): the integer and whether TypeError or ValueError was raised
Trunc(tenths) == IF tenths >= 0 THEN tenths \div 10 ELSE -((-tenths) \div 10)
Converts(value) ==
    CASE value.type = "None" -> FALSE
      [] value.type = "str" -> value.str \in DigitWords \cup DOMAIN SignedInts
      [] OTHER -> TRUE
IntOfValue(value) ==
    CASE value.type = "float" -> Trunc(value.num)
      [] value.type = "str" -> IntValue(value.str)
      [] OTHER -> value.num
Min(a, b) == IF a <= b THEN a ELSE b
Clamp_none(interval) == interval
Clamp(interval) == Max(MIN_SCAN_INTERVAL, Min(MAX_SCAN_INTERVAL, interval))
\* const.py lines 36-43
normalize_scan_interval(value) ==
    IF Converts(value) THEN Clamp(IntOfValue(value)) ELSE DEFAULT_SCAN_INTERVAL

\* config_flow.py lines 47-52: the hosts of the model
_normalize_host(host) ==
    IF host \in {"192.168.10.1", " 192.168.10.1/"} THEN "https://192.168.10.1" ELSE host

\* the config entries, and the entry id None
EntryIds == {"entry-1", "entry-2", "entry-3"}
NoEntry == "none"
Services ==
    {"reboot_router", "restart_5g_connection", "switch_5g_band", "send_sms",
     "send_at_command"}
\* an option that is not set
Missing == ScanValue("missing", 0, "")
\* the scan intervals an entry was stored with
StoredIntervals ==
    {Missing, ScanValue("None", 0, ""), ScanInt(5), ScanInt(60),
     ScanValue("float", 175, ""), ScanValue("str", 0, "invalid")}
EntryData(host, username, password, model) ==
    [host |-> host, username |-> username, password |-> password, model |-> model]
\* an entry that is not set up: interval is the update interval of its
\* coordinator, 0 when it has none
NewEntry(host, scan) ==
    [state |-> "not_loaded", data |-> EntryData(host, "admin", "old", "default"),
     options |-> scan, interval |-> 0]
NoResult ==
    [fn |-> "none", entry |-> NoEntry, result |-> "none", errors |-> "",
     reloaded |-> FALSE, service |-> "none", resolved |-> NoEntry, before |-> <<>>]
Hass(entries) ==
    [entries |-> entries, coordinators |-> <<>>, services |-> {}, registrations |-> 0,
     last |-> NoResult]
\* Home Assistant with the entries of the integration, none set up
InitHass == {Hass([e \in EntryIds |-> NewEntry("https://192.168.10.1", Missing)])}
\* Home Assistant with one entry, as an earlier version may have stored it
InitFlowHass ==
    {Hass([e \in {"entry-1"} |-> NewEntry(host, scan)]) :
        host \in {"https://192.168.10.1", "192.168.10.1"}, scan \in StoredIntervals}

InitEntry ==
    /\ auth_cookie = None
    /\ jar = None
    /\ th = [t \in Threads |-> IdleFrame]
    /\ \E h \in InitHass : poll = [IdlePoll EXCEPT !.pc = "hass", !.hass = h]

InitFlow ==
    /\ auth_cookie = None
    /\ jar = None
    /\ th = [t \in Threads |-> IdleFrame]
    /\ \E h \in InitFlowHass : poll = [IdlePoll EXCEPT !.pc = "hass", !.hass = h]

\* options.get(CONF_SCAN_INTERVAL, DEFAULT_SCAN_INTERVAL)
OptionOrDefault(options) == IF options = Missing THEN ScanInt(DEFAULT_SCAN_INTERVAL) ELSE options
\* coordinator.py lines 31-44
CoordinatorInterval(options) == normalize_scan_interval(OptionOrDefault(options))

\* __init__.py lines 176-197: register the services unless reboot_router is
\* registered
RegisterServices(h) ==
    IF "reboot_router" \in h.services THEN h
    ELSE [h EXCEPT !.services = Services, !.registrations = Min(2, @ + 1)]
\* hass.data.setdefault(DOMAIN, {})[entry_id] = coordinator
WithCoordinator(coordinators, e) ==
    IF \E i \in 1..Len(coordinators) : coordinators[i] = e THEN coordinators
    ELSE Append(coordinators, e)
\* __init__.py lines 75-105; authenticated is "raises", "rejected" or "ok",
\* refreshed says whether the first refresh succeeded
SetUp(h, e, authenticated, refreshed) ==
    IF authenticated = "raises" \/ (authenticated = "ok" /\ ~refreshed)
    THEN [h EXCEPT !.entries[e].state = "setup_retry", !.entries[e].interval = 0]
    ELSE IF authenticated = "rejected"
    THEN [h EXCEPT !.entries[e].state = "setup_error", !.entries[e].interval = 0]
    ELSE RegisterServices(
           [h EXCEPT !.entries[e].state = "loaded",
                     !.entries[e].interval = CoordinatorInterval(h.entries[e].options),
                     !.coordinators = WithCoordinator(h.coordinators, e)])

\* hass.data[DOMAIN].pop(entry_id)
RECURSIVE Without(_, _)
Without(coordinators, e) ==
    IF coordinators = <<>> THEN <<>>
    ELSE IF Head(coordinators) = e THEN Without(Tail(coordinators), e)
    ELSE <<Head(coordinators)>> \o Without(Tail(coordinators), e)
ServicesAfterUnload_keep(h) == h
ServicesAfterUnload(h) ==
    IF h.coordinators = <<>> THEN [h EXCEPT !.services = {}, !.registrations = 0] ELSE h
\* __init__.py lines 200-215
Unloaded(h, e, unload_ok) ==
    IF unload_ok
    THEN ServicesAfterUnload(
           [h EXCEPT !.entries[e].state = "not_loaded", !.entries[e].interval = 0,
                     !.coordinators = Without(h.coordinators, e)])
    ELSE [h EXCEPT !.entries[e].state = "failed_unload"]

\* config_entries.async_reload of a loaded entry: unload, then set up
SetUpAgain(h, e, authenticated, refreshed) ==
    IF h.entries[e].state = "not_loaded" THEN SetUp(h, e, authenticated, refreshed) ELSE h
Reload(h, e, unload_ok, authenticated, refreshed) ==
    IF h.entries[e].state = "loaded"
    THEN SetUpAgain(Unloaded(h, e, unload_ok), e, authenticated, refreshed)
    ELSE IF h.entries[e].state \in {"not_loaded", "setup_retry", "setup_error"}
    THEN SetUp(h, e, authenticated, refreshed)
    ELSE h

AuthOutcomes == {"raises", "rejected", "ok"}
HassStep(h, last) ==
    /\ poll' = [poll EXCEPT !.hass = [h EXCEPT !.last = last]]
    /\ UNCHANGED <<auth_cookie, jar, th>>

async_setup_entry ==
    /\ poll.pc = "hass"
    /\ \E e \in DOMAIN poll.hass.entries, authenticated \in AuthOutcomes,
          refreshed \in BOOLEAN :
          /\ poll.hass.entries[e].state \in {"not_loaded", "setup_retry"}
          /\ HassStep(SetUp(poll.hass, e, authenticated, refreshed),
                      [NoResult EXCEPT !.fn = "async_setup_entry", !.entry = e])

async_unload_entry ==
    /\ poll.pc = "hass"
    /\ \E e \in DOMAIN poll.hass.entries, unload_ok \in BOOLEAN :
          /\ poll.hass.entries[e].state = "loaded"
          /\ HassStep(Unloaded(poll.hass, e, unload_ok),
                      [NoResult EXCEPT !.fn = "async_unload_entry", !.entry = e])

\* __init__.py lines 113-123: the entry whose coordinator is returned,
\* NoEntry for None; the entry id NoEntry is a call without entry_id
_get_coordinator(coordinators, entry_id) ==
    IF entry_id # NoEntry
    THEN IF \E i \in 1..Len(coordinators) : coordinators[i] = entry_id
         THEN entry_id ELSE NoEntry
    ELSE IF coordinators # <<>> THEN coordinators[1] ELSE NoEntry
\* hass.data[DOMAIN] raises KeyError when no coordinator is stored
Resolves(coordinators, entry_id) ==
    IF entry_id # NoEntry /\ coordinators = <<>> THEN "KeyError" ELSE "ok"
ServiceCalled(service, entry_id) ==
    /\ poll.pc = "hass"
    /\ service \in poll.hass.services
    /\ HassStep(poll.hass,
                [NoResult EXCEPT !.fn = "service", !.service = service,
                                 !.result = Resolves(poll.hass.coordinators, entry_id),
                                 !.resolved = _get_coordinator(poll.hass.coordinators,
                                                               entry_id)])
\* the entry ids of a service call: none, an entry, an unknown id
CallIds == EntryIds \cup {NoEntry, "entry-x"}

handle_reboot ==
    \E entry_id \in CallIds : ServiceCalled("reboot_router", entry_id)

handle_restart_5g ==
    \E entry_id \in CallIds : ServiceCalled("restart_5g_connection", entry_id)

handle_switch_band ==
    \E entry_id \in CallIds : ServiceCalled("switch_5g_band", entry_id)

handle_send_sms ==
    \E entry_id \in CallIds : ServiceCalled("send_sms", entry_id)

handle_send_at_command ==
    \E entry_id \in CallIds : ServiceCalled("send_at_command", entry_id)


\* config_flow.py lines 55-78: validate_input raises CannotConnect,
\* InvalidAuth or something else, or returns the normalized host and the model
ValidationOutcomes == {"ok", "cannot_connect", "invalid_auth", "unknown"}
ValidatedModels == {"P5", "default"}
\* what the user submits in the reauth form
Credentials == {[username |-> "new-admin", password |-> "new-password"]}

ReauthData_always(data, outcome, updated_data) == updated_data
ReauthData(data, outcome, updated_data) == IF outcome = "ok" THEN updated_data ELSE data
\* config_flow.py lines 148-152 and 163-164
UpdatedData(data, user_input, device_model) ==
    EntryData(_normalize_host(data.host), user_input.username, user_input.password,
              device_model)
ReauthResult(e, outcome, reloaded, before) ==
    [NoResult EXCEPT !.fn = "async_step_reauth_confirm", !.entry = e,
                     !.result = IF outcome = "ok" THEN "abort:reauth_successful"
                                ELSE "form:reauth_confirm",
                     !.errors = IF outcome = "ok" THEN "" ELSE outcome,
                     !.reloaded = reloaded, !.before = before]
\* the entry after async_update_entry
WithData(h, e, data) == [h EXCEPT !.entries[e].data = data]

\* config_flow.py lines 135-196 with a bound entry and submitted credentials
async_step_reauth_confirm ==
    /\ poll.pc = "hass"
    /\ \E e \in DOMAIN poll.hass.entries, user_input \in Credentials,
          outcome \in ValidationOutcomes,
          device_model \in ValidatedModels, unload_ok \in BOOLEAN,
          authenticated \in AuthOutcomes, refreshed \in BOOLEAN :
          IF outcome = "ok"
          THEN HassStep(Reload(WithData(poll.hass, e,
                                        ReauthData(poll.hass.entries[e].data, outcome,
                                                   UpdatedData(poll.hass.entries[e].data,
                                                               user_input, device_model))),
                               e, unload_ok, authenticated, refreshed),
                        ReauthResult(e, outcome, TRUE, poll.hass.entries[e]))
          ELSE HassStep(WithData(poll.hass, e,
                                 ReauthData(poll.hass.entries[e].data, outcome,
                                            UpdatedData(poll.hass.entries[e].data,
                                                        user_input, device_model))),
                        ReauthResult(e, outcome, FALSE, poll.hass.entries[e]))

\* the same step without user input, or without a bound entry: the form is
\* shown, or the flow aborts with reason unknown
async_step_reauth_form ==
    /\ poll.pc = "hass"
    /\ \E e \in DOMAIN poll.hass.entries \cup {NoEntry} :
          HassStep(poll.hass,
                   [NoResult EXCEPT !.fn = "async_step_reauth_confirm", !.entry = e,
                                    !.result = IF e = NoEntry THEN "abort:unknown"
                                               ELSE "form:reauth_confirm"])

\* config_flow.py lines 206-215: the options flow stores the submitted scan
\* interval normalized; the update listener of a loaded entry reloads it
SubmittedOptions(value) ==
    IF value = Missing THEN Missing ELSE ScanInt(normalize_scan_interval(value))
WithOptions(h, e, options) == [h EXCEPT !.entries[e].options = options]
OptionsResult(e, before) ==
    [NoResult EXCEPT !.fn = "async_step_init", !.entry = e, !.result = "create_entry",
                     !.before = before]
async_step_init ==
    /\ poll.pc = "hass"
    /\ \E e \in DOMAIN poll.hass.entries, value \in ScanInputs \cup {Missing},
          unload_ok \in BOOLEAN,
          authenticated \in AuthOutcomes, refreshed \in BOOLEAN :
          IF poll.hass.entries[e].state = "loaded"
             /\ SubmittedOptions(value) # poll.hass.entries[e].options
          THEN HassStep(Reload(WithOptions(poll.hass, e, SubmittedOptions(value)), e,
                               unload_ok, authenticated, refreshed),
                        OptionsResult(e, poll.hass.entries[e]))
          ELSE HassStep(WithOptions(poll.hass, e, SubmittedOptions(value)),
                        OptionsResult(e, poll.hass.entries[e]))

NextEntry ==
    \/ async_setup_entry
    \/ async_unload_entry
    \/ handle_reboot
    \/ handle_restart_5g
    \/ handle_switch_band
    \/ handle_send_sms
    \/ handle_send_at_command

SpecEntry == InitEntry /\ [][NextEntry]_vars

NextFlow ==
    \/ async_setup_entry
    \/ async_unload_entry
    \/ async_step_reauth_confirm
    \/ async_step_reauth_form
    \/ async_step_init

SpecFlow == InitFlow /\ [][NextFlow]_vars


Last == poll.hass.last
\* the reauth form was submitted for the entry Last.entry
ReauthSubmitted == Last.fn = "async_step_reauth_confirm" /\ Last.before # <<>>
Submitted == CHOOSE c \in Credentials : TRUE

\* C25: the reauthentication flow changes the stored entry only on success:
\* then the entry has the submitted username and password, it is reloaded and
\* the flow aborts with reauth_successful; when validation fails the entry is
\* as it was, nothing is reloaded and the reauth_confirm form is shown with
\* the error.
C25_ReauthOnlyOnSuccess ==
    ReauthSubmitted =>
        IF Last.errors = ""
        THEN /\ Last.result = "abort:reauth_successful"
             /\ poll.hass.entries[Last.entry].data.username = Submitted.username
             /\ poll.hass.entries[Last.entry].data.password = Submitted.password
             /\ Last.reloaded
        ELSE /\ Last.result = "form:reauth_confirm"
             /\ Last.errors \in {"cannot_connect", "invalid_auth", "unknown"}
             /\ poll.hass.entries[Last.entry] = Last.before
             /\ ~Last.reloaded

C25_Witness ==
    /\ ReauthSubmitted
    /\ Last.result = "abort:reauth_successful"
    /\ Last.before.data.username = "admin" /\ Last.before.data.password = "old"
    /\ poll.hass.entries[Last.entry].data.username = "new-admin"
    /\ poll.hass.entries[Last.entry].state = "loaded"

\* the integer a scan interval converts to, put into the range by comparison
InRange(n) ==
    IF n < MIN_SCAN_INTERVAL THEN MIN_SCAN_INTERVAL
    ELSE IF n > MAX_SCAN_INTERVAL THEN MAX_SCAN_INTERVAL ELSE n
Normalizes(value) ==
    /\ normalize_scan_interval(value) \in MIN_SCAN_INTERVAL..MAX_SCAN_INTERVAL
    /\ (Converts(value) => normalize_scan_interval(value) = InRange(IntOfValue(value)))
    /\ (~Converts(value) => normalize_scan_interval(value) = DEFAULT_SCAN_INTERVAL)
    /\ normalize_scan_interval(ScanInt(normalize_scan_interval(value)))
         = normalize_scan_interval(value)

LoadedEntries ==
    {e \in DOMAIN poll.hass.entries : poll.hass.entries[e].state \in {"loaded", "failed_unload"}}
Coordinators == {poll.hass.coordinators[i] : i \in 1..Len(poll.hass.coordinators)}

\* C30: the five services are registered exactly when an entry is loaded,
\* registered once, and a service call resolves to the coordinator of a
\* loaded entry or to none.
C30_ServicesWhileLoaded ==
    /\ poll.hass.services = (IF LoadedEntries # {} THEN Services ELSE {})
    /\ poll.hass.registrations = (IF LoadedEntries # {} THEN 1 ELSE 0)
    /\ Coordinators = LoadedEntries
    /\ (Last.fn = "service" =>
          /\ Last.result = "ok"
          /\ Last.resolved \in LoadedEntries \cup {NoEntry})

C30_Witness ==
    /\ Cardinality(LoadedEntries) >= 2
    /\ \E e \in DOMAIN poll.hass.entries : poll.hass.entries[e].state = "not_loaded"
    /\ Last.fn = "service" /\ Last.resolved \in LoadedEntries
    /\ Last.resolved # poll.hass.coordinators[1]


(***************************************************************************)
(* A poll and a control action on the same router client: the page fetch  *)
(* of the poll runs get() in one executor thread while set_mesh_led runs  *)
(* in another. Every request and every write of the cookie is one step.   *)
(* A thread's frame keeps its position, its loop counters and the cookie  *)
(* of the request it sent last.                                            *)
(***************************************************************************)
\* fresh: authenticate() of this call returned True and no request followed yet;
\* after_auth: the request sent last was the first one after that
RaceFrame ==
    [pc |-> "idle", op |-> "none", retries |-> 0, attempt |-> 0,
     fresh |-> FALSE, after_auth |-> FALSE, sent |-> None]

InitRace ==
    /\ auth_cookie = None
    /\ jar = None
    /\ th = [t \in Threads |-> RaceFrame]
    /\ poll = IdlePoll

\* authenticate() lines 267-273 entered from frame l
RaceAuthPrologue(l) == [l EXCEPT !.pc = "new_get", !.attempt = 1, !.fresh = FALSE]

\* authenticate() returns b: get() lines 312-317, set_mesh_led lines 1118-1121
\* and 1153-1155
RaceAuthDone(l, b) ==
    IF l.op = "get"
    THEN IF b /\ l.retries > 0 THEN [l EXCEPT !.pc = "get_send", !.fresh = TRUE]
         ELSE [l EXCEPT !.pc = "idle"]
    ELSE IF b THEN [l EXCEPT !.pc = "led_set", !.fresh = TRUE]
         ELSE [l EXCEPT !.pc = "idle"]

RaceNewFailed(l) == [l EXCEPT !.pc = AfterNewFailure(l.attempt), !.attempt = l.attempt + 1]

\* the request of frame l goes out with cookie c
RaceSent(l, c) == [l EXCEPT !.sent = c, !.after_auth = l.fresh, !.fresh = FALSE]

\* _authenticate_new lines 160-179
RaceNewGet(t) ==
    /\ th[t].pc = "new_get"
    /\ UNCHANGED <<poll, auth_cookie>>
    /\ \E r \in Exceptions \cup LoginPageResponses :
         /\ jar' = JarAfter(jar, r)
         /\ th' = [th EXCEPT ![t] = IF r.kind = "response" /\ r.form
                                    THEN [@ EXCEPT !.pc = "new_post"]
                                    ELSE RaceNewFailed(@)]

\* _authenticate_new lines 181-224
RaceNewPost(t) ==
    /\ th[t].pc = "new_post"
    /\ UNCHANGED poll
    /\ \E r \in Exceptions \cup LoginPostResponses :
         /\ jar' = JarAfter(jar, r)
         /\ IF r.kind = "response" /\ NewSucceeds(JarAfter(jar, r), r.status)
            THEN /\ auth_cookie' = JarAfter(jar, r)
                 /\ th' = [th EXCEPT ![t] = RaceAuthDone(@, TRUE)]
            ELSE /\ auth_cookie' = auth_cookie
                 /\ th' = [th EXCEPT ![t] = RaceNewFailed(@)]

\* _authenticate_legacy lines 127-148
RaceLegacyPost(t) ==
    /\ th[t].pc = "legacy_post"
    /\ UNCHANGED poll
    /\ \E r \in Exceptions \cup LoginPostResponses :
         /\ jar' = JarAfter(jar, r)
         /\ IF r.kind = "response" /\ LegacySucceeds(r.status, r.setcookie)
            THEN /\ auth_cookie' = r.setcookie
                 /\ th' = [th EXCEPT ![t] = RaceAuthDone(@, TRUE)]
            ELSE /\ auth_cookie' = auth_cookie
                 /\ th' = [th EXCEPT ![t] = RaceAuthDone(@, FALSE)]

\* the poll calls get(url)
RaceStartGet(t) ==
    /\ th[t].pc = "idle"
    /\ UNCHANGED <<poll, auth_cookie, jar>>
    /\ th' = [th EXCEPT ![t] = [RaceFrame EXCEPT !.op = "get", !.pc = "get_send",
                                                 !.retries = GetRetries]]

\* get() lines 294-324: one pass of the loop
RaceGetSend(t) ==
    /\ th[t].pc = "get_send"
    /\ UNCHANGED poll
    /\ \E r \in Exceptions \cup PageResponses :
         LET l == [RaceSent(th[t], SentCookie(auth_cookie, jar)) EXCEPT !.retries = @ - 1]
             d == IF r.kind = "exception" THEN "exception" ELSE GetDisposition(r.status)
         IN IF d = "authenticate"
            THEN /\ th' = [th EXCEPT ![t] = RaceAuthPrologue(l)]
                 /\ jar' = None
                 /\ auth_cookie' = CookieAfterReset(auth_cookie)
            ELSE /\ th' = [th EXCEPT ![t] =
                             IF d = "exception" /\ AfterException(l.retries) = "get_send"
                             THEN l ELSE [l EXCEPT !.pc = "idle"]]
                 /\ jar' = JarAfter(SentCookie(auth_cookie, jar), r)
                 /\ auth_cookie' = auth_cookie

\* requests' cookies.set("sysauth", value): a value of None removes the cookie
CookiesSet(value) == value

\* set_mesh_led lines 1113-1121: the remembered cookie, or authenticate()
LedStart(t) ==
    /\ th[t].pc = "idle"
    /\ UNCHANGED poll
    /\ IF auth_cookie # None
       THEN /\ th' = [th EXCEPT ![t] = [RaceFrame EXCEPT !.op = "set_mesh_led",
                                                         !.pc = "led_get", !.retries = 1]]
            /\ jar' = CookiesSet(auth_cookie)
            /\ auth_cookie' = auth_cookie
       ELSE /\ th' = [th EXCEPT ![t] =
                        RaceAuthPrologue([RaceFrame EXCEPT !.op = "set_mesh_led",
                                                           !.retries = 1])]
            /\ jar' = None
            /\ auth_cookie' = CookieAfterReset(auth_cookie)

\* set_mesh_led lines 1121 and 1155: after authenticate() returned True the
\* remembered cookie is put into the session
LedSet(t) ==
    /\ th[t].pc = "led_set"
    /\ UNCHANGED <<poll, auth_cookie>>
    /\ jar' = CookiesSet(auth_cookie)
    /\ th' = [th EXCEPT ![t].pc = "led_get"]

\* set_mesh_led lines 1147-1163: GET the batled page; a login form leads to
\* one re-authentication, a page without token ends the call
LedGet(t) ==
    /\ th[t].pc = "led_get"
    /\ UNCHANGED poll
    /\ \E get \in LoginGets :
         LET l == RaceSent(th[t], jar)
         IN IF get.kind = "response" /\ get.login /\ l.retries > 0
            THEN /\ th' = [th EXCEPT ![t] = RaceAuthPrologue([l EXCEPT !.retries = 0])]
                 /\ jar' = None
                 /\ auth_cookie' = CookieAfterReset(auth_cookie)
            ELSE /\ th' = [th EXCEPT ![t] =
                             IF get.kind = "exception" \/ _extract_hidden(get) = ""
                             THEN [l EXCEPT !.pc = "idle"]
                             ELSE [l EXCEPT !.pc = "led_post"]]
                 /\ UNCHANGED <<auth_cookie, jar>>

\* set_mesh_led: POST the form to the ledctl endpoint
LedPost(t) ==
    /\ th[t].pc = "led_post"
    /\ UNCHANGED <<poll, auth_cookie, jar>>
    /\ \E post \in ActionPosts :
         th' = [th EXCEPT ![t] = [RaceSent(@, jar) EXCEPT !.pc = "idle"]]

\* the poll's thread fetches pages, the action's thread sets a mesh LED, and
\* both run authenticate() from inside their call
NextRace ==
    \/ \E t \in Threads : RaceNewGet(t)
    \/ \E t \in Threads : RaceNewPost(t)
    \/ \E t \in Threads : RaceLegacyPost(t)
    \/ RaceStartGet("poll")
    \/ RaceGetSend("poll")
    \/ LedStart("action")
    \/ LedSet("action")
    \/ LedGet("action")
    \/ LedPost("action")

SpecRace == InitRace /\ [][NextRace]_vars

\* the same two calls one after the other: a call starts when no call runs
Serial == \A t \in Threads : th[t].pc # "idle" => \A u \in Threads \ {t} : th[u].pc = "idle"

\* C27: with a poll and a control action running on the same client in two
\* threads, the request a flow sends right after its own successful
\* authenticate() carries a session cookie.
C27_CookieWritesSerialized ==
    \A t \in Threads : th[t].after_auth => th[t].sent # None

\* a poll re-authenticated while the action was between its own
\* authentication and its request: the action's request has no cookie
C27_Raced ==
    /\ th["action"].op = "set_mesh_led" /\ th["action"].after_auth
    /\ th["action"].sent = None
    /\ th["poll"].op = "get" /\ th["poll"].pc # "idle"

(***************************************************************************)
(* Properties of the mesh module's keys and count.                         *)
(***************************************************************************)
\* six colon-separated upper-case pairs, for a text that is a MAC
Canonical(s) == IsMac(s) => (StrUpper(s) = s /\ StripColons(s) # s)
KeysAreMacs(devices) ==
    \A i \in 1..Len(devices) :
        /\ devices[i].key = devices[i].dev["mac_address"]
        /\ Canonical(devices[i].key)

\* C28: in the mesh module parse_mesh_devices returns and in the one a
\* collection returns, every key of mesh_devices is the mac_address of its
\* record and, for a real MAC, is in canonical form, also after the by-MAC
\* update of a record whose key has no colons.
C28_KeysAreMacs ==
    MeshReturned =>
        /\ KeysAreMacs(parse_mesh_devices(poll.inp.mesh.page).mesh_devices)
        /\ KeysAreMacs(poll.data["mesh"].mesh_devices)

\* C29: mesh_count of a returned mesh module is never negative and, when
\* mesh_devices is not empty, is the number of its records, the records the
\* reconciliation added or replaced included.
C29_CountIsRecords ==
    MeshReturned =>
        /\ poll.data["mesh"].mesh_count.value >= 0
        /\ (poll.data["mesh"].mesh_devices # <<>> =>
              poll.data["mesh"].mesh_count.value = Len(poll.data["mesh"].mesh_devices))

====
